---- MODULE Spec2Model ----
(***************************************************************************)
(* WebDAV sync protocol v2 of cc-switch-cli: upload / download of a        *)
(* snapshot (db.sql + skills.zip + manifest.json) and the local apply with *)
(* backup and rollback of the skills tree.                                 *)
(*                                                                         *)
(* Bytes are sequences of numbers 0..255, a text is a sequence of code     *)
(* points, a directory tree is a function from relative paths (sequences   *)
(* of names) to nodes.  Size ceilings of the program are scaled down; the  *)
(* comparisons made with them are those of the code.                       *)
(***************************************************************************)
EXTENDS Integers, Sequences, FiniteSets, TLC

----------------------------------------------------------------------------
(* Program constants (webdav_sync/mod.rs, webdav_sync/archive.rs)          *)

PROTOCOL_FORMAT == "cc-switch-webdav-sync"
PROTOCOL_VERSION == 2
REMOTE_DB_SQL == "db.sql"
REMOTE_SKILLS_ZIP == "skills.zip"
REMOTE_MANIFEST == "manifest.json"

\* 1 MB in the program; scaled.
MAX_MANIFEST_BYTES == 4
\* 512 MB in the program; scaled.
MAX_SYNC_ARTIFACT_BYTES == 24
\* 10,000 in the program; scaled.
MAX_ZIP_ENTRIES == 3
\* 512 MB in the program; scaled (the archive is compressed, so the
\* extracted total is not bounded by the artifact ceiling).
MAX_ZIP_EXTRACT_BYTES == 3
\* 16 KiB buffer of copy_entry_with_total_limit; scaled.
COPY_BUF_BYTES == 2

----------------------------------------------------------------------------
(* Generic helpers                                                         *)

Min(a, b) == IF a < b THEN a ELSE b

\* F applied to the value of v: v is evaluated once, however often F uses it.
Let(v, F(_)) == CHOOSE y \in {F(x) : x \in {v}} : TRUE

\* The elements of a sequence.
Range(s) == {s[i] : i \in 1..Len(s)}

\* s is a prefix of t (Path::starts_with on components).
IsPrefix(s, t) == Len(s) <= Len(t) /\ SubSeq(t, 1, Len(s)) = s

\* The sequence s from its (n+1)-th element on.
Drop(s, n) == SubSeq(s, n + 1, Len(s))

----------------------------------------------------------------------------
(* Bytes, text and hashes                                                  *)

\* String::into_bytes of the exported SQL: the UTF-8 encoding of a text
\* whose code points are below 0x800.
RECURSIVE Utf8Encode(_)
Utf8Encode(text) ==
    IF text = <<>> THEN <<>>
    ELSE LET cp == Head(text)
         IN  (IF cp < 128 THEN <<cp>>
              ELSE <<192 + (cp \div 64), 128 + (cp % 64)>>)
             \o Utf8Encode(Tail(text))

\* std::str::from_utf8 on the byte values the model uses (one- and two-byte
\* sequences; every other lead byte is invalid): [ok, text].
RECURSIVE Utf8Decode(_)
Utf8Decode(bytes) ==
    IF bytes = <<>> THEN [ok |-> TRUE, text |-> <<>>]
    ELSE LET b == Head(bytes)
         IN  IF b < 128
             THEN Let(Utf8Decode(Tail(bytes)), LAMBDA r :
                      [ok |-> r.ok, text |-> IF r.ok THEN <<b>> \o r.text ELSE <<>>])
             ELSE IF b >= 194 /\ b <= 223 /\ Len(bytes) >= 2
                     /\ bytes[2] >= 128 /\ bytes[2] <= 191
             THEN Let(Utf8Decode(Drop(bytes, 2)), LAMBDA r :
                      [ok |-> r.ok,
                       text |-> IF r.ok
                                THEN <<(b - 192) * 64 + (bytes[2] - 128)>> \o r.text
                                ELSE <<>>])
             ELSE [ok |-> FALSE, text |-> <<>>]

\* sha256_hex: SHA-256 idealised as collision-free.  The digest is a
\* byte-wise bijective scramble of the input in reverse order, so that it is
\* injective and differs from the hashed bytes.
Sha256Scramble(b) == (7 * b + 3) % 257

sha256_hex(bytes) ==
    Let(bytes, LAMBDA b : [i \in 1..Len(b) |-> Sha256Scramble(b[Len(b) + 1 - i])])

----------------------------------------------------------------------------
(* File names, paths and directory trees                                   *)

\* A file name is its byte string; a path is a sequence of names relative
\* to the skills root (SkillService::get_ssot_dir()).
NameA == <<97>>
NameB == <<98>>
NameD == <<100>>
NameL == <<108>>
NameHidden == <<46, 104>>
DotDot == <<46, 46>>
Slash == 47
Dot == 46

\* Lexicographic byte order of two names (OsString's Ord, used by
\* entries.sort_by_key(|entry| entry.file_name())).
RECURSIVE NameLess(_, _)
NameLess(x, y) ==
    IF y = <<>> THEN FALSE
    ELSE IF x = <<>> THEN TRUE
    ELSE IF Head(x) # Head(y) THEN Head(x) < Head(y)
    ELSE NameLess(Tail(x), Tail(y))

\* The names of a set in ascending order.
RECURSIVE SortNames(_)
SortNames(S) ==
    IF S = {} THEN <<>>
    ELSE Let(CHOOSE x \in S : \A y \in S \ {x} : NameLess(x, y),
             LAMBDA m : <<m>> \o SortNames(S \ {m}))

\* Nodes of a tree: a regular file with its content, a directory, or a
\* symbolic link with its target (a path from the root, or OutsideTarget).
FileNode(c) == [k |-> "f", c |-> c, tgt |-> <<>>]
DirNode == [k |-> "d", c |-> <<>>, tgt |-> <<>>]
LinkNode(t) == [k |-> "l", c |-> <<>>, tgt |-> t]

\* Target of a symlink that leaves the root: a regular file outside it.
OutsideTarget == <<DotDot>>
OutsideContent == <<57>>

\* A tree from a set of <<path, node>> pairs.
MkTree(S) == [p \in {e[1] : e \in S} |-> (CHOOSE e \in S : e[1] = p)[2]]

EmptyTree == MkTree({})

\* A directory that may not exist: Path::exists() and the tree below it.
NoDir == [exists |-> FALSE, t |-> EmptyTree]
Dir(t) == [exists |-> TRUE, t |-> t]

\* How often a path resolution may follow a link before it gives up (ELOOP).
MaxLinkHops == 4

\* fs::canonicalize(root.join(p)): the first link on the path is replaced by
\* its target until none is left.  [ok, out, path].
RECURSIVE Canon(_, _, _)
Canon(t, path, fuel) ==
    Let(path, LAMBDA p :
    Let({i \in 1..Len(p) :
            SubSeq(p, 1, i) \in DOMAIN t /\ t[SubSeq(p, 1, i)].k = "l"},
        LAMBDA links :
        IF links = {}
        THEN [ok |-> p = <<>> \/ p \in DOMAIN t, out |-> FALSE, path |-> p]
        ELSE LET i == CHOOSE j \in links : \A m \in links : j <= m
                 tgt == t[SubSeq(p, 1, i)].tgt
             IN  IF fuel = 0 THEN [ok |-> FALSE, out |-> FALSE, path |-> p]
                 ELSE IF tgt = OutsideTarget
                 THEN [ok |-> i = Len(p), out |-> TRUE, path |-> tgt]
                 ELSE Canon(t, tgt \o Drop(p, i), fuel - 1)))

canonicalize(t, p) == Canon(t, p, MaxLinkHops)

\* Path::is_dir(): follows links.
is_dir(t, p) ==
    Let(canonicalize(t, p), LAMBDA c :
        c.ok /\ ~c.out /\ (c.path = <<>> \/ t[c.path].k = "d"))

\* The bytes read through a path that is not a directory: [ok, c].
ReadFile(t, p) ==
    Let(canonicalize(t, p), LAMBDA c :
        IF ~c.ok \/ is_dir(t, p) THEN [ok |-> FALSE, c |-> <<>>]
        ELSE IF c.out THEN [ok |-> TRUE, c |-> OutsideContent]
        ELSE [ok |-> TRUE, c |-> t[c.path].c])

\* fs::read_dir of the directory a path leads to: the names in it.
read_dir(t, p) ==
    Let(canonicalize(t, p).path, LAMBDA d :
        {q[Len(q)] : q \in {r \in DOMAIN t : Len(r) = Len(d) + 1 /\ IsPrefix(d, r)}})

\* The names of a set in the order a directory listing yields them: the
\* file system's order is any order; ord is a sequence holding every name.
RECURSIVE ListingOrder(_, _)
ListingOrder(S, ord) ==
    IF ord = <<>> THEN <<>>
    ELSE (IF Head(ord) \in S THEN <<Head(ord)>> ELSE <<>>)
         \o ListingOrder(S, Tail(ord))

----------------------------------------------------------------------------
(* copy_dir_recursive                                                      *)

\* copy_dir_recursive_inner(src, dest, visited) as the sequence of writes it
\* makes below dest, in order: [p, n] creates node n at path p of dest
\* (p = <<>> is create_dir_all(dest) itself).  src is a path of tree t and
\* may lead through links; a source directory whose canonical path is in
\* visited is skipped without creating its destination.  ok = FALSE: a
\* source could not be read (fs::copy of a dangling link) after the writes
\* in ev.  [ev, vis, ok].
RECURSIVE CopyInner(_, _, _, _, _)
RECURSIVE CopyEntries(_, _, _, _, _, _)
CopyInner(t, src, dest, visited, ord) ==
    Let(canonicalize(t, src), LAMBDA c :
        IF ~c.ok THEN [ev |-> <<>>, vis |-> visited, ok |-> TRUE]
        ELSE IF c.path \in visited THEN [ev |-> <<>>, vis |-> visited, ok |-> TRUE]
        ELSE Let(CopyEntries(t, src, dest, ListingOrder(read_dir(t, src), ord),
                             visited \cup {c.path}, ord),
                 LAMBDA r : [ev |-> <<[p |-> dest, n |-> DirNode]>> \o r.ev,
                             vis |-> r.vis, ok |-> r.ok]))

CopyEntries(t, src, dest, names, visited, ord) ==
    IF names = <<>> THEN [ev |-> <<>>, vis |-> visited, ok |-> TRUE]
    ELSE
    Let(<<Append(src, Head(names)), Append(dest, Head(names)), Tail(names), visited>>,
        LAMBDA a :
        LET path == a[1]
            dest_path == a[2]
        IN  Let(IF is_dir(t, path)
                THEN CopyInner(t, path, dest_path, a[4], ord)
                ELSE Let(ReadFile(t, path), LAMBDA f :
                         [ev |-> IF f.ok
                                 THEN <<[p |-> dest_path, n |-> FileNode(f.c)]>>
                                 ELSE <<>>,
                          vis |-> a[4], ok |-> f.ok]),
                LAMBDA one :
                IF ~one.ok THEN one
                ELSE Let(CopyEntries(t, src, dest, a[3], one.vis, ord),
                         LAMBDA rest : [ev |-> one.ev \o rest.ev,
                                        vis |-> rest.vis, ok |-> rest.ok])))

\* copy_dir_recursive(src, dest) read from a directory d (that may not
\* exist: then nothing is written): the writes, and whether all sources
\* could be read.
copy_dir_recursive(d, ord) ==
    IF ~d.exists THEN [ev |-> <<>>, vis |-> {}, ok |-> TRUE]
    ELSE CopyInner(d.t, <<>>, <<>>, {}, ord)

\* The destination directory after write w: create_dir_all keeps what is
\* there, fs::copy creates or overwrites the file.
ApplyWrite(dir, write) ==
    Let(<<dir, write>>, LAMBDA a :
        LET d == a[1]
            w == a[2]
        IN  IF w.p = <<>> THEN Dir(d.t)
            ELSE IF w.n.k = "d" /\ w.p \in DOMAIN d.t THEN d
            ELSE Dir([q \in DOMAIN d.t \cup {w.p} |->
                         IF q = w.p THEN w.n ELSE d.t[q]]))

\* The destination after the first n writes of ev.
RECURSIVE ApplyWrites(_, _, _)
ApplyWrites(d, ev, n) ==
    IF n = 0 THEN d
    ELSE Let(ApplyWrites(d, ev, n - 1), LAMBDA r : ApplyWrite(r, ev[n]))

----------------------------------------------------------------------------
(* The archive container (zip crate) as a byte codec                       *)

\* An archive is a sequence of entries [name, data, time]; name is the
\* entry's path string with '/' separators, a directory entry's name ends
\* in '/', time is its last-modified stamp.  The container's bytes: a
\* two-byte magic, then per entry the length of the name, the name, the
\* stamp, the length of the data, the data.
ZipMagic == <<80, 75>>

\* DateTime::default(): 1980-01-01 00:00:00, the first stamp the format has.
ZipEpoch == 0

\* An entry stamped DateTime::default().
Entry(name, data) == [name |-> name, data |-> data, time |-> ZipEpoch]

RECURSIVE ZipEntriesBytes(_)
ZipEntriesBytes(es) ==
    IF es = <<>> THEN <<>>
    ELSE <<Len(Head(es).name)>> \o Head(es).name \o <<Head(es).time>>
         \o <<Len(Head(es).data)>> \o Head(es).data
         \o ZipEntriesBytes(Tail(es))

\* ZipWriter::finish(): the bytes of the archive.
ZipEncode(es) == ZipMagic \o ZipEntriesBytes(es)

\* The entries a byte string holds after the magic: [ok, es].
RECURSIVE ZipParseEntries(_)
ZipParseEntries(bytes) ==
    Let(bytes, LAMBDA b :
    IF b = <<>> THEN [ok |-> TRUE, es |-> <<>>]
    ELSE LET nl == b[1]
         IN  IF Len(b) < nl + 3 THEN [ok |-> FALSE, es |-> <<>>]
             ELSE LET dl == b[nl + 3]
                      e == [name |-> SubSeq(b, 2, nl + 1),
                            data |-> SubSeq(b, nl + 4, nl + 3 + dl),
                            time |-> b[nl + 2]]
                  IN  IF Len(b) < nl + 3 + dl THEN [ok |-> FALSE, es |-> <<>>]
                      ELSE Let(ZipParseEntries(Drop(b, nl + 3 + dl)), LAMBDA r :
                               [ok |-> r.ok,
                                es |-> IF r.ok THEN <<e>> \o r.es ELSE <<>>]))

\* ZipArchive::new: [ok, es].
ZipParse(b) ==
    IF Len(b) < 2 \/ SubSeq(b, 1, 2) # ZipMagic THEN [ok |-> FALSE, es |-> <<>>]
    ELSE ZipParseEntries(Drop(b, 2))

\* rel.to_string_lossy() of a relative path: its names joined by '/'.
RECURSIVE JoinPath(_)
JoinPath(p) ==
    IF p = <<>> THEN <<>>
    ELSE IF Len(p) = 1 THEN p[1]
    ELSE p[1] \o <<Slash>> \o JoinPath(Tail(p))

\* Path::components() of a path string: the non-empty pieces between '/'.
RECURSIVE SplitPath(_, _)
SplitPath(name, cur) ==
    IF name = <<>> THEN (IF cur = <<>> THEN <<>> ELSE <<cur>>)
    ELSE IF Head(name) = Slash
         THEN (IF cur = <<>> THEN <<>> ELSE <<cur>>) \o SplitPath(Tail(name), <<>>)
         ELSE SplitPath(Tail(name), Append(cur, Head(name)))

\* The components with "." dropped (Component::CurDir).
Components(name) == SelectSeq(SplitPath(name, <<>>), LAMBDA c : c # <<Dot>>)

----------------------------------------------------------------------------
(* Packing: zip_skills_ssot / zip_dir_recursive                            *)

\* A variant of mark_visited_dir that reports every directory as new.
mark_visited_dir_always_first(t, path, visited) ==
    Let(canonicalize(t, path), LAMBDA c :
        [ok |-> c.ok, first |-> TRUE,
         vis |-> IF c.ok THEN visited \cup {c.path} ELSE visited])

\* mark_visited_dir(path, visited): [ok, first, vis].
mark_visited_dir(t, path, visited) ==
    Let(canonicalize(t, path), LAMBDA c :
        [ok |-> c.ok, first |-> c.path \notin visited,
         vis |-> IF c.ok THEN visited \cup {c.path} ELSE visited])

\* ZipWriter::add_directory / start_file refuse a name the archive holds.
HasEntry(es, name) == \E i \in 1..Len(es) : es[i].name = name

\* A variant of zip_file_options that stamps entries with the time of
\* packing.
zip_file_options_now(now) == [time |-> now]

\* zip_file_options() called at wall-clock time now: every entry is stamped
\* DateTime::default().
zip_file_options(now) == [time |-> ZipEpoch]

\* A variant of sort_by_key that leaves the listing as read_dir gave it.
sort_by_key_unsorted(listing) == listing

\* entries.sort_by_key(|entry| entry.file_name()) of a directory listing.
sort_by_key(listing) == SortNames(Range(listing))

\* zip_dir_recursive(root, current, ...) for the entries `names` of the
\* canonical directory `current`, appending to the entries written so far:
\* [ok, es, vis].  ok = FALSE: the function returned Err.  ord is the
\* order in which the file system lists names.
RECURSIVE ZipDirEntries(_, _, _, _, _, _, _)
ZipDirEntries(t, current, names, entries, visited, ord, options) ==
    IF names = <<>> THEN [ok |-> TRUE, es |-> entries, vis |-> visited]
    ELSE
    Let(<<Head(names), Tail(names), entries, visited,
          canonicalize(t, Append(current, Head(names)))>>, LAMBDA a :
    LET name == a[1]
        es == a[3]
        path == Append(current, name)
        c == a[5]
        real_path == IF c.ok THEN c.path ELSE path
        rel_str == JoinPath(real_path)
        next(es2, vis2) == ZipDirEntries(t, current, a[2], es2, vis2, ord, options)
    IN  IF Head(name) = Dot THEN next(es, a[4])
        ELSE IF c.ok /\ c.out THEN next(es, a[4])
        ELSE IF is_dir(t, real_path)
        THEN Let(mark_visited_dir(t, real_path, a[4]), LAMBDA m :
                 IF ~m.ok THEN [ok |-> FALSE, es |-> es, vis |-> a[4]]
                 ELSE IF ~m.first THEN next(es, a[4])
                 ELSE IF HasEntry(es, Append(rel_str, Slash))
                 THEN [ok |-> FALSE, es |-> es, vis |-> m.vis]
                 ELSE Let(ZipDirEntries(t, real_path,
                              sort_by_key(ListingOrder(read_dir(t, real_path), ord)),
                              Append(es, [name |-> Append(rel_str, Slash),
                                          data |-> <<>>, time |-> options.time]),
                              m.vis, ord, options),
                          LAMBDA sub : IF ~sub.ok THEN sub
                                       ELSE next(sub.es, sub.vis)))
        ELSE Let(ReadFile(t, real_path), LAMBDA f :
                 IF HasEntry(es, rel_str) \/ ~f.ok
                 THEN [ok |-> FALSE, es |-> es, vis |-> a[4]]
                 ELSE next(Append(es, [name |-> rel_str, data |-> f.c,
                                       time |-> options.time]), a[4])))

\* zip_skills_ssot at wall-clock time now: the entries written for the
\* skills directory d (none when it does not exist): [ok, es, vis].
zip_skills_ssot(d, ord, now) ==
    IF ~d.exists THEN [ok |-> TRUE, es |-> <<>>, vis |-> {}]
    ELSE ZipDirEntries(d.t, <<>>, sort_by_key(ListingOrder(read_dir(d.t, <<>>), ord)),
                       <<>>, {<<>>}, ord, zip_file_options(now))

----------------------------------------------------------------------------
(* Unpacking: the extraction loop of restore_skills_zip                    *)

\* ZipFile::enclosed_name(): None for a name with a NUL byte, an absolute
\* name, or one whose ".." components lead above the extraction directory.
RECURSIVE DepthOk(_, _)
DepthOk(comps, depth) ==
    IF comps = <<>> THEN TRUE
    ELSE IF Head(comps) = DotDot
         THEN depth > 0 /\ DepthOk(Tail(comps), depth - 1)
         ELSE DepthOk(Tail(comps), depth + 1)

\* A variant of enclosed_name that accepts every name.
enclosed_name_any(name) == TRUE

enclosed_name(name) ==
    /\ 0 \notin Range(name)
    /\ (name = <<>> \/ Head(name) # Slash)
    /\ DepthOk(Components(name), 0)

\* The scratch directory tmp/skills-extracted, as a path from the root of
\* the file system.
NameTmp == <<116>>
NameExtracted == <<101>>
ExtractRoot == <<NameTmp, NameExtracted>>

\* A path as the file system resolves it from directory acc: ".." steps
\* back to the parent (and stays at the root).
RECURSIVE ResolveDots(_, _)
ResolveDots(comps, acc) ==
    IF comps = <<>> THEN acc
    ELSE IF Head(comps) = DotDot
         THEN ResolveDots(Tail(comps), SubSeq(acc, 1, Len(acc) - 1))
         ELSE ResolveDots(Tail(comps), Append(acc, Head(comps)))

\* extracted.join(name) cut after the first k components of name, resolved:
\* Path::join of an absolute name replaces the base.
OutPath(name, k) ==
    ResolveDots(SubSeq(Components(name), 1, k),
                IF name # <<>> /\ Head(name) = Slash THEN <<>> ELSE ExtractRoot)

\* Path p is the extraction directory or below it.
InExtractRoot(p) == IsPrefix(ExtractRoot, p)

\* ZipFile::is_dir(): the name ends in '/'.
entry_is_dir(name) == name # <<>> /\ name[Len(name)] = Slash

\* fs::create_dir_all(p) in tree t: [ok, t]; fails when a file is in the way.
create_dir_all(t, p) ==
    LET pre == {SubSeq(p, 1, i) : i \in 1..Len(p)}
    IN  IF \E q \in pre : q \in DOMAIN t /\ t[q].k # "d"
        THEN [ok |-> FALSE, t |-> t]
        ELSE [ok |-> TRUE,
              t |-> [q \in DOMAIN t \cup pre |-> IF q \in DOMAIN t THEN t[q] ELSE DirNode]]

\* copy_entry_with_total_limit: the entry's bytes go out in chunks of at
\* most COPY_BUF_BYTES; before a chunk is written the running total plus
\* the chunk is compared with the ceiling.  [ok, written, total].
\* A variant of copy_entry_with_total_limit that writes the chunk and then
\* compares the total with the ceiling.
RECURSIVE copy_entry_check_after_write(_, _, _, _)
copy_entry_check_after_write(data, written, total_bytes, max_total_bytes) ==
    LET n == Min(COPY_BUF_BYTES, Len(data) - written)
    IN  IF n = 0 THEN [ok |-> TRUE, written |-> written, total |-> total_bytes]
        ELSE IF total_bytes + n > max_total_bytes
        THEN [ok |-> FALSE, written |-> written + n, total |-> total_bytes + n]
        ELSE copy_entry_check_after_write(data, written + n, total_bytes + n,
                                          max_total_bytes)

RECURSIVE copy_entry_with_total_limit(_, _, _, _)
copy_entry_with_total_limit(data, written, total_bytes, max_total_bytes) ==
    LET n == Min(COPY_BUF_BYTES, Len(data) - written)
    IN  IF n = 0 THEN [ok |-> TRUE, written |-> written, total |-> total_bytes]
        ELSE IF total_bytes + n > max_total_bytes
        THEN [ok |-> FALSE, written |-> written, total |-> total_bytes]
        ELSE copy_entry_with_total_limit(data, written + n, total_bytes + n,
                                         max_total_bytes)

\* fs::create_dir_all(extracted.join(name)) for the first k components of
\* name: every directory on the way is made.  [ok, t, outside]: t is the
\* scratch tree, outside the paths touched that are not below ExtractRoot.
CreateDirs(t, name, k, outside) ==
    LET made == {OutPath(name, j) : j \in 0..k}
        inside == {Drop(q, Len(ExtractRoot)) : q \in {q \in made : InExtractRoot(q)}}
        out == {q \in made : ~InExtractRoot(q) /\ ~IsPrefix(q, ExtractRoot)}
        dom == DOMAIN t \cup UNION {{SubSeq(q, 1, i) : i \in 1..Len(q)} : q \in inside}
    IN  IF \E q \in inside : ~create_dir_all(t, q).ok
        THEN [ok |-> FALSE, t |-> t, outside |-> outside]
        ELSE [ok |-> TRUE,
              t |-> [q \in dom |-> IF q \in DOMAIN t THEN t[q] ELSE DirNode],
              outside |-> outside \cup out]

\* One pass of the loop `for idx in 0..archive.len()` from entry i on, into
\* the scratch tree `tree` with running total `total`: [ok, t, total,
\* outside].
RECURSIVE ExtractEntries(_, _, _, _, _)
ExtractEntries(es, i, tree, total, outside) ==
    IF i > Len(es)
    THEN [ok |-> TRUE, t |-> tree, total |-> total, outside |-> outside]
    ELSE
    Let(<<tree, total, outside, es[i].name>>, LAMBDA a :
    LET t == a[1]
        total_bytes == a[2]
        name == a[4]
        n == Len(Components(name))
        Failed(t2, tot, o) == [ok |-> FALSE, t |-> t2, total |-> tot, outside |-> o]
    IN  IF ~enclosed_name(name)
        THEN ExtractEntries(es, i + 1, t, total_bytes, a[3])
        ELSE IF entry_is_dir(name)
        THEN Let(CreateDirs(t, name, n, a[3]), LAMBDA r :
                 IF ~r.ok THEN Failed(t, total_bytes, a[3])
                 ELSE ExtractEntries(es, i + 1, r.t, total_bytes, r.outside))
        ELSE Let(<<CreateDirs(t, name, n - 1, a[3]),
                   copy_entry_with_total_limit(es[i].data, 0, total_bytes,
                                               MAX_ZIP_EXTRACT_BYTES),
                   OutPath(name, n)>>,
                 LAMBDA rw :
                 LET r == rw[1]
                     w == rw[2]
                     out_path == Drop(rw[3], Len(ExtractRoot))
                 IN  IF ~r.ok \/ IsPrefix(rw[3], ExtractRoot)
                     THEN Failed(t, total_bytes, a[3])
                     ELSE IF ~InExtractRoot(rw[3])
                     THEN (IF ~w.ok
                           THEN Failed(r.t, w.total, r.outside \cup {rw[3]})
                           ELSE ExtractEntries(es, i + 1, r.t, w.total,
                                               r.outside \cup {rw[3]}))
                     ELSE IF out_path \in DOMAIN r.t /\ r.t[out_path].k = "d"
                     THEN Failed(t, total_bytes, a[3])
                     ELSE Let([q \in DOMAIN r.t \cup {out_path} |->
                                  IF q = out_path
                                  THEN FileNode(SubSeq(es[i].data, 1, w.written))
                                  ELSE r.t[q]],
                              LAMBDA t2 :
                              IF ~w.ok
                              THEN Failed(t2, w.total, r.outside)
                              ELSE ExtractEntries(es, i + 1, t2, w.total,
                                                  r.outside))))

\* A variant of Unpack that counts the entries after extracting them.
UnpackCountingAfterExtraction(raw) ==
    Let(ZipParse(raw), LAMBDA a :
        IF ~a.ok
        THEN [ok |-> FALSE, t |-> EmptyTree, total |-> 0, outside |-> {}]
        ELSE Let(ExtractEntries(a.es, 1, EmptyTree, 0, {}), LAMBDA r :
                 [r EXCEPT !.ok = r.ok /\ Len(a.es) <= MAX_ZIP_ENTRIES]))

\* A variant of Unpack that rejects an archive of exactly MAX_ZIP_ENTRIES
\* entries as well.
UnpackBelowMaxOnly(raw) ==
    Let(ZipParse(raw), LAMBDA a :
        IF ~a.ok \/ Len(a.es) >= MAX_ZIP_ENTRIES
        THEN [ok |-> FALSE, t |-> EmptyTree, total |-> 0, outside |-> {}]
        ELSE ExtractEntries(a.es, 1, EmptyTree, 0, {}))

\* restore_skills_zip up to the end of the extraction loop: parse the bytes,
\* check the entry count, extract into the fresh scratch directory.
\* [ok, t, total, outside]: t is skills-extracted.
Unpack(raw) ==
    Let(ZipParse(raw), LAMBDA a :
        IF ~a.ok \/ Len(a.es) > MAX_ZIP_ENTRIES
        THEN [ok |-> FALSE, t |-> EmptyTree, total |-> 0, outside |-> {}]
        ELSE ExtractEntries(a.es, 1, EmptyTree, 0, {}))

----------------------------------------------------------------------------
(* Manifest and remote transport                                           *)

ArtifactNames == {REMOTE_DB_SQL, REMOTE_SKILLS_ZIP}

\* ArtifactMeta of a byte string, as build_local_snapshot fills it in.
ArtifactMeta(bytes) == [sha256 |-> sha256_hex(bytes), size |-> Len(bytes)]

\* The artifacts map build_local_snapshot inserts for the two byte strings.
ArtifactsOf(db_sql, skills_zip) ==
    [n \in ArtifactNames |->
        IF n = REMOTE_DB_SQL THEN ArtifactMeta(db_sql) ELSE ArtifactMeta(skills_zip)]

\* The bytes of a name constant (str::as_bytes), for the snapshot id.
NameBytes(name) ==
    IF name = REMOTE_DB_SQL THEN <<100, 98>> ELSE <<115, 107>>

\* A BTreeMap<String, ArtifactMeta> is the sequence of its [name, meta]
\* entries in the order iter() yields them.

\* A variant of btree_insert that keeps the entries in insertion order.
btree_insert_unordered(map, name, meta) ==
    IF \E i \in 1..Len(map) : map[i].name = name
    THEN [i \in 1..Len(map) |->
             IF map[i].name = name THEN [name |-> name, meta |-> meta] ELSE map[i]]
    ELSE Append(map, [name |-> name, meta |-> meta])

\* BTreeMap::insert: the value of a key the map holds is replaced, a new
\* key goes to its place in the order of the keys' bytes.
btree_insert(map, name, meta) ==
    IF \E i \in 1..Len(map) : map[i].name = name
    THEN [i \in 1..Len(map) |->
             IF map[i].name = name THEN [name |-> name, meta |-> meta] ELSE map[i]]
    ELSE SelectSeq(map, LAMBDA e : NameLess(NameBytes(e.name), NameBytes(name)))
         \o <<[name |-> name, meta |-> meta]>>
         \o SelectSeq(map, LAMBDA e : ~NameLess(NameBytes(e.name), NameBytes(name)))

\* BTreeMap::new() followed by the inserts of a sequence of [name, meta].
RECURSIVE BTreeMapOf(_)
BTreeMapOf(inserts) ==
    IF inserts = <<>> THEN <<>>
    ELSE Let(BTreeMapOf(SubSeq(inserts, 1, Len(inserts) - 1)), LAMBDA map :
             btree_insert(map, inserts[Len(inserts)].name, inserts[Len(inserts)].meta))

\* The inserts that build the artifacts map of a manifest: db.sql, then
\* skills.zip (build_local_snapshot), as far as the manifest has them.
InsertsOf(artifacts) ==
    SelectSeq(<<REMOTE_DB_SQL, REMOTE_SKILLS_ZIP>>, LAMBDA n : n \in DOMAIN artifacts)

\* compute_snapshot_id: each entry of the map, in iteration order, as
\* name ':' sha256.
SnapshotIdParts(map) ==
    [i \in 1..Len(map) |-> NameBytes(map[i].name) \o <<58>> \o map[i].meta.sha256]

\* join("|").
RECURSIVE JoinBar(_)
JoinBar(parts) ==
    IF parts = <<>> THEN <<>>
    ELSE IF Len(parts) = 1 THEN parts[1]
    ELSE parts[1] \o <<124>> \o JoinBar(Tail(parts))

compute_snapshot_id(map) == sha256_hex(JoinBar(SnapshotIdParts(map)))

\* The snapshot id build_local_snapshot computes for an artifacts map.
SnapshotIdOf(artifacts) ==
    Let(artifacts, LAMBDA a :
        compute_snapshot_id(BTreeMapOf(
            [i \in 1..Len(InsertsOf(a)) |->
                [name |-> InsertsOf(a)[i], meta |-> a[InsertsOf(a)[i]]]])))

\* Length of the serialized manifest of an upload (serde_json::to_vec_pretty
\* of a SyncManifest with two artifacts): far below MAX_MANIFEST_BYTES.
ManifestBytesLen == 2

\* A manifest.json object: json says whether its bytes decode as a
\* SyncManifest, len is their length, the other fields are the decoded ones.
SyncManifest(format, version, created_at, artifacts) ==
    [json |-> TRUE, len |-> ManifestBytesLen, format |-> format,
     version |-> version, created_at |-> created_at, artifacts |-> artifacts,
     snapshot_id |-> SnapshotIdOf(artifacts)]

NoManifest == SyncManifest("", 0, 0, <<>>)

\* Remote objects: present or not, with their content.
Absent == [present |-> FALSE, bytes |-> <<>>]
Object(bytes) == [present |-> TRUE, bytes |-> bytes]
AbsentManifest == [present |-> FALSE, m |-> NoManifest]
ManifestObject(m) == [present |-> TRUE, m |-> m]

\* webdav::get_bytes(url, auth, Some(limit)) on an object of length len:
\* "err" for a failed request or a non-success status, "none" for 404,
\* "too_large" when the declared length (declared = -1: none reported) or
\* the buffered length exceeds the limit, else "ok".
get_bytes(present, len, limit, sent, declared) ==
    IF ~sent THEN "err"
    ELSE IF ~present THEN "none"
    ELSE IF declared # -1 /\ declared > limit THEN "too_large"
    ELSE IF len > limit THEN "too_large"
    ELSE "ok"

\* A variant of get_bytes_body that trusts the declared length: the buffered
\* body is not measured.
get_bytes_body_trusting_header(max_bytes, content_length, read_ok, body) ==
    IF max_bytes # <<>>
    THEN IF content_length # <<>> /\ content_length[1] > max_bytes[1]
         THEN [res |-> "too_large", buffered |-> FALSE, bytes |-> <<>>]
         ELSE IF ~read_ok
         THEN [res |-> "err", buffered |-> FALSE, bytes |-> <<>>]
         ELSE [res |-> "ok", buffered |-> TRUE, bytes |-> body]
    ELSE IF ~read_ok
    THEN [res |-> "err", buffered |-> FALSE, bytes |-> <<>>]
    ELSE [res |-> "ok", buffered |-> TRUE, bytes |-> body]

\* webdav::get_bytes, lines 248-273, on a response with a success status:
\* max_bytes is <<>> (None) or <<limit>>, content_length is <<>> (none
\* reported) or <<len>>, body is what resp.bytes() yields when read_ok.
\* [res, buffered, bytes]: buffered tells whether resp.bytes() returned the
\* body, bytes is what the function returns on "ok".
get_bytes_body(max_bytes, content_length, read_ok, body) ==
    IF max_bytes # <<>>
    THEN IF content_length # <<>> /\ content_length[1] > max_bytes[1]
         THEN [res |-> "too_large", buffered |-> FALSE, bytes |-> <<>>]
         ELSE IF ~read_ok
         THEN [res |-> "err", buffered |-> FALSE, bytes |-> <<>>]
         ELSE IF Len(body) > max_bytes[1]
         THEN [res |-> "too_large", buffered |-> TRUE, bytes |-> <<>>]
         ELSE [res |-> "ok", buffered |-> TRUE, bytes |-> body]
    ELSE IF ~read_ok
    THEN [res |-> "err", buffered |-> FALSE, bytes |-> <<>>]
    ELSE [res |-> "ok", buffered |-> TRUE, bytes |-> body]

\* A variant of validate_manifest_compat that accepts every version.
validate_manifest_compat_any_version(manifest) ==
    IF manifest.format # PROTOCOL_FORMAT THEN "manifest_format_incompatible"
    ELSE "ok"

\* validate_manifest_compat: "ok" or the key of the error.
validate_manifest_compat(manifest) ==
    IF manifest.format # PROTOCOL_FORMAT THEN "manifest_format_incompatible"
    ELSE IF manifest.version # PROTOCOL_VERSION THEN "manifest_version_incompatible"
    ELSE "ok"

\* A variant of validate_artifact_size_limit that rejects a size equal to
\* the ceiling as well.
validate_artifact_size_limit_exclusive(size) ==
    IF size >= MAX_SYNC_ARTIFACT_BYTES THEN "artifact_too_large" ELSE "ok"

\* validate_artifact_size_limit.
validate_artifact_size_limit(size) ==
    IF size > MAX_SYNC_ARTIFACT_BYTES THEN "artifact_too_large" ELSE "ok"

\* A variant of download_and_verify without the hash comparison.
download_and_verify_no_hash(artifact_name, artifacts, get, bytes) ==
    IF artifact_name \notin DOMAIN artifacts THEN "manifest_missing_artifact"
    ELSE IF validate_artifact_size_limit(artifacts[artifact_name].size) # "ok"
    THEN validate_artifact_size_limit(artifacts[artifact_name].size)
    ELSE IF get = "err" THEN "transport"
    ELSE IF get = "too_large" THEN "response_too_large"
    ELSE IF get = "none" THEN "remote_missing_artifact"
    ELSE IF Len(bytes) # artifacts[artifact_name].size THEN "artifact_size_mismatch"
    ELSE "ok"

\* A variant of download_and_verify without the length comparison.
download_and_verify_no_size(artifact_name, artifacts, get, bytes) ==
    IF artifact_name \notin DOMAIN artifacts THEN "manifest_missing_artifact"
    ELSE IF validate_artifact_size_limit(artifacts[artifact_name].size) # "ok"
    THEN validate_artifact_size_limit(artifacts[artifact_name].size)
    ELSE IF get = "err" THEN "transport"
    ELSE IF get = "too_large" THEN "response_too_large"
    ELSE IF get = "none" THEN "remote_missing_artifact"
    ELSE IF sha256_hex(bytes) # artifacts[artifact_name].sha256
    THEN "artifact_hash_mismatch"
    ELSE "ok"

\* download_and_verify without its GET: what the function returns for the
\* manifest's artifacts, given how the GET ends (get = "skip" while the
\* request is not reached) and the bytes it yields.
download_and_verify(artifact_name, artifacts, get, bytes) ==
    IF artifact_name \notin DOMAIN artifacts THEN "manifest_missing_artifact"
    ELSE LET meta == artifacts[artifact_name]
         IN  IF validate_artifact_size_limit(meta.size) # "ok"
             THEN validate_artifact_size_limit(meta.size)
             ELSE IF get = "err" THEN "transport"
             ELSE IF get = "too_large" THEN "response_too_large"
             ELSE IF get = "none" THEN "remote_missing_artifact"
             ELSE IF Len(bytes) # meta.size THEN "artifact_size_mismatch"
             ELSE IF sha256_hex(bytes) # meta.sha256 THEN "artifact_hash_mismatch"
             ELSE "ok"

\* A variant of IssuesGet that looks the descriptor up after the GET.
IssuesGetBeforeLookup(artifact_name, artifacts) ==
    \/ artifact_name \notin DOMAIN artifacts
    \/ validate_artifact_size_limit(artifacts[artifact_name].size) = "ok"

\* A variant of IssuesGet that checks the declared size after the GET.
IssuesGetBeforeSizeCheck(artifact_name, artifacts) ==
    artifact_name \in DOMAIN artifacts

\* Whether download_and_verify issues its GET.
IssuesGet(artifact_name, artifacts) ==
    /\ artifact_name \in DOMAIN artifacts
    /\ validate_artifact_size_limit(artifacts[artifact_name].size) = "ok"

----------------------------------------------------------------------------
(* Error text of the remote-store operations (webdav.rs)                   *)

\* Text is a sequence of character codes.
Contains(text, part) ==
    \E i \in 0..(Len(text) - Len(part)) : SubSeq(text, i + 1, i + Len(part)) = part

\* The first and the last position of character ch in text, 0 if none.
IndexOf(text, ch) ==
    IF \E i \in 1..Len(text) : text[i] = ch
    THEN CHOOSE i \in 1..Len(text) : text[i] = ch /\ \A j \in 1..(i - 1) : text[j] # ch
    ELSE 0
LastIndexOf(text, ch) ==
    IF \E i \in 1..Len(text) : text[i] = ch
    THEN CHOOSE i \in 1..Len(text) :
             text[i] = ch /\ \A j \in (i + 1)..Len(text) : text[j] # ch
    ELSE 0

\* "http://"
HttpScheme == <<104, 116, 116, 112, 58, 47, 47>>

\* Url::parse of an http URL: scheme, then the authority up to the first
\* '/', in it the userinfo before the last '@', in that the password after
\* the first ':'.  An empty password is no password.
UrlParse(raw) ==
    IF ~IsPrefix(HttpScheme, raw)
    THEN [ok |-> FALSE, user |-> <<>>, password |-> <<>>, host |-> <<>>, path |-> <<>>]
    ELSE LET rest == Drop(raw, Len(HttpScheme))
             slash == IndexOf(rest, 47)
             authority == IF slash = 0 THEN rest ELSE SubSeq(rest, 1, slash - 1)
             at == LastIndexOf(authority, 64)
             userinfo == SubSeq(authority, 1, at - 1)
             colon == IndexOf(userinfo, 58)
         IN  [ok |-> Drop(authority, at) # <<>>,
              user |-> IF colon = 0 THEN userinfo ELSE SubSeq(userinfo, 1, colon - 1),
              password |-> IF colon = 0 THEN <<>> ELSE Drop(userinfo, colon),
              host |-> Drop(authority, at),
              path |-> IF slash = 0 THEN <<47>> ELSE Drop(rest, slash - 1)]

\* Url::to_string.
UrlToString(u) ==
    HttpScheme
    \o (IF u.user = <<>> /\ u.password = <<>> THEN <<>>
        ELSE u.user \o (IF u.password = <<>> THEN <<>> ELSE <<58>> \o u.password)
             \o <<64>>)
    \o u.host \o u.path

\* redact_url: a password in the URL is replaced by "***"; what does not
\* parse is returned as it is.
redact_url(url) ==
    Let(UrlParse(url), LAMBDA parsed :
        IF ~parsed.ok THEN url
        ELSE IF parsed.password # <<>>
        THEN UrlToString([parsed EXCEPT !.password = <<42, 42, 42>>])
        ELSE UrlToString(parsed))

\* The Display of a reqwest::Error of send(): it names the URL of the
\* request, from which the request builder has taken the userinfo out.
ReqwestError(url) ==
    Let(UrlParse(url), LAMBDA parsed :
        <<101, 32>> \o (IF parsed.ok
                        THEN UrlToString([parsed EXCEPT !.user = <<>>, !.password = <<>>])
                        ELSE <<>>))

\* host.contains("jianguoyun.com") || host.contains("nutstore"): the model's
\* hosts that do are the ones with a 'j'.
is_jianguoyun(base_url) ==
    Let(UrlParse(base_url), LAMBDA parsed : parsed.ok /\ Contains(parsed.host, <<106>>))

\* StatusCode's Display: the three digits.
StatusText(status) ==
    <<48 + (status \div 100), 48 + ((status \div 10) % 10), 48 + (status % 10)>>

\* Method names as text.
MethodText(operation) ==
    CASE operation = "PROPFIND" -> <<80, 70>>
      [] operation = "PUT" -> <<80, 85>>
      [] operation = "GET" -> <<71, 69>>
      [] operation = "HEAD" -> <<72, 69>>
      [] operation = "MKCOL" -> <<77, 75>>
      [] operation = "DELETE" -> <<68, 69>>

\* The hint webdav_status_error appends: one of six fixed sentences, here
\* ".1" to ".6", or nothing.  operation is the text of the operation.
StatusHint(base_url, operation, status) ==
    LET jgy == is_jianguoyun(base_url)
    IN  IF status \in {401, 403} THEN (IF jgy THEN <<46, 49>> ELSE <<46, 50>>)
        ELSE IF jgy /\ (status = 404 \/ status \in 300..399) THEN <<46, 51>>
        ELSE IF operation = MethodText("MKCOL") /\ status = 409
        THEN (IF jgy THEN <<46, 52>> ELSE <<46, 53>>)
        ELSE IF operation = MethodText("MKCOL") /\ status = 405 THEN <<46, 54>>
        ELSE <<>>

\* webdav_status_error(base_url, operation, status, url):
\* "WebDAV {operation} failed: {status} ({display_url})" and the hint.
webdav_status_error(base_url, operation, status, url) ==
    <<87, 32>> \o operation \o <<58, 32>> \o StatusText(status)
    \o <<32, 40>> \o redact_url(url) \o <<41>>
    \o StatusHint(base_url, operation, status)

\* with_service_hint(base_url, message).
with_service_hint(base_url, message) ==
    message \o (IF is_jianguoyun(base_url) THEN <<46, 55>> ELSE <<>>)

\* What a request meets: no response (send() fails) or a status.
SendError == 0
NoError == <<>>

\* test_connection(base_url, auth) meeting `response`: the error text, or
\* NoError for Ok.  auth goes into the Authorization header only.
TestConnectionError(base_url, auth, response) ==
    IF response = SendError
    THEN with_service_hint(base_url, <<84, 32>> \o ReqwestError(base_url))
    ELSE IF response \in {200, 207, 204} THEN NoError
    ELSE webdav_status_error(base_url, MethodText("PROPFIND"), response, base_url)

\* put_bytes(url, auth, bytes, content_type) meeting `response`.
PutBytesError(url, auth, response) ==
    IF response = SendError
    THEN with_service_hint(url, <<80, 32>> \o ReqwestError(url))
    ELSE IF response \in 200..299 THEN NoError
    ELSE webdav_status_error(url, MethodText("PUT"), response, url)

\* get_bytes(url, auth, max_bytes) meeting `response`, with the body read
\* ("ok"), longer than max_bytes ("large": the message names the limit only)
\* or failing to arrive ("broken").
GetBytesError(url, auth, response, body) ==
    IF response = SendError
    THEN with_service_hint(url, <<71, 32>> \o ReqwestError(url))
    ELSE IF response = 404 THEN NoError
    ELSE IF response \notin 200..299
    THEN webdav_status_error(url, MethodText("GET"), response, url)
    ELSE IF body = "large" THEN <<76, 32, 48 + MAX_MANIFEST_BYTES>>
    ELSE IF body = "broken" THEN <<82, 32>> \o ReqwestError(url)
    ELSE NoError

\* head_etag(url, auth) meeting `response`.
HeadEtagError(url, auth, response) ==
    IF response = SendError
    THEN with_service_hint(url, <<72, 32>> \o ReqwestError(url))
    ELSE IF response = 404 \/ response \in 200..299 THEN NoError
    ELSE webdav_status_error(url, MethodText("HEAD"), response, url)

\* propfind_remote_dir(url, auth, base_url): [err, probe].
propfind_remote_dir(url, auth, base_url, response) ==
    IF response = SendError
    THEN [err |-> with_service_hint(base_url, <<70, 32>> \o ReqwestError(url)),
          probe |-> "none"]
    ELSE IF response \in {200, 207, 204} THEN [err |-> NoError, probe |-> "Exists"]
    ELSE IF response = 404 THEN [err |-> NoError, probe |-> "Missing"]
    ELSE IF response = 405 THEN [err |-> NoError, probe |-> "Unsupported"]
    ELSE [err |-> webdav_status_error(base_url, MethodText("PROPFIND"), response, url),
          probe |-> "none"]

\* A variant of should_verify_after_mkcol without 409 Conflict.
should_verify_after_mkcol_no_conflict(status) == status \in {405, 301, 302, 307, 308}

should_verify_after_mkcol(status) == status \in {405, 301, 302, 307, 308, 409}

\* ensure_single_dir(url, auth, base_url) whose PROPFIND, MKCOL and second
\* PROPFIND meet responses[1], [2] and [3].
ensure_single_dir(url, auth, base_url, responses) ==
    Let(propfind_remote_dir(url, auth, base_url, responses[1]), LAMBDA first :
        IF first.err # NoError THEN first.err
        ELSE IF first.probe = "Exists" THEN NoError
        ELSE IF responses[2] = SendError
        THEN with_service_hint(base_url, <<77, 32>> \o ReqwestError(url))
        ELSE IF responses[2] = 201 THEN NoError
        ELSE IF should_verify_after_mkcol(responses[2])
        THEN Let(propfind_remote_dir(url, auth, base_url, responses[3]), LAMBDA again :
                 IF again.err # NoError THEN again.err
                 ELSE IF again.probe = "Exists" THEN NoError
                 ELSE webdav_status_error(base_url, MethodText("MKCOL"),
                                          responses[2], url))
        ELSE webdav_status_error(base_url, MethodText("MKCOL"), responses[2], url))

\* The requests ensure_single_dir sends when they meet responses[1], [2]
\* and [3]: the methods in order.
ensure_single_dir_requests(url, auth, base_url, responses) ==
    Let(propfind_remote_dir(url, auth, base_url, responses[1]), LAMBDA first :
        IF first.err # NoError \/ first.probe = "Exists" THEN <<"PROPFIND">>
        ELSE IF responses[2] # SendError /\ responses[2] # 201
                /\ should_verify_after_mkcol(responses[2])
        THEN <<"PROPFIND", "MKCOL", "PROPFIND">>
        ELSE <<"PROPFIND", "MKCOL">>)

\* build_remote_url(base_url, [segment]): [ok, url]; the segment "d" is
\* pushed after the path of base_url (pop_if_empty drops a trailing '/').
build_remote_url(base_url) ==
    Let(UrlParse(base_url), LAMBDA parsed :
        IF ~parsed.ok THEN [ok |-> FALSE, url |-> <<>>]
        ELSE [ok |-> TRUE,
              url |-> UrlToString([parsed EXCEPT !.path =
                          (IF @[Len(@)] = 47 THEN @ ELSE Append(@, 47)) \o <<100>>])])

\* ensure_remote_directories(base_url, [segment], auth): an unparsable
\* base_url gives the message of the parse error, which names no URL.
EnsureRemoteDirectoriesError(base_url, auth, responses) ==
    Let(build_remote_url(base_url), LAMBDA built :
        IF ~built.ok THEN <<85>>
        ELSE ensure_single_dir(built.url, auth, base_url, responses))

\* build_remote_url(base_url, segments[..n]) for segments that are all "d".
RECURSIVE PushSegments(_, _)
PushSegments(path, n) ==
    IF n = 0 THEN path
    ELSE PushSegments((IF path[Len(path)] = 47 THEN path ELSE Append(path, 47))
                      \o <<100>>, n - 1)
build_remote_url_segments(base_url, n) ==
    Let(UrlParse(base_url), LAMBDA parsed :
        IF ~parsed.ok THEN [ok |-> FALSE, url |-> <<>>]
        ELSE [ok |-> TRUE,
              url |-> UrlToString([parsed EXCEPT !.path = PushSegments(@, n)])])

\* ensure_remote_directories(base_url, segments, auth) from segment i on;
\* responses[i] holds what the requests for segment i meet.  [err, reqs]:
\* reqs are the requests sent, each [seg, m].
RECURSIVE ensure_remote_directories(_, _, _, _)
ensure_remote_directories(base_url, auth, responses, i) ==
    IF i > Len(responses) THEN [err |-> NoError, reqs |-> <<>>]
    ELSE
    Let(build_remote_url_segments(base_url, i), LAMBDA built :
        IF ~built.ok THEN [err |-> <<85>>, reqs |-> <<>>]
        ELSE
        Let(<<ensure_single_dir(built.url, auth, base_url, responses[i]),
              ensure_single_dir_requests(built.url, auth, base_url, responses[i])>>,
            LAMBDA e :
            LET mine == [j \in 1..Len(e[2]) |-> [seg |-> i, m |-> e[2][j]]]
            IN  IF e[1] # NoError THEN [err |-> e[1], reqs |-> mine]
                ELSE Let(ensure_remote_directories(base_url, auth, responses, i + 1),
                         LAMBDA rest : [err |-> rest.err, reqs |-> mine \o rest.reqs])))

\* delete_collection(url, auth) meeting `response` with body `body`: the
\* status error is built by webdav_status_error("DELETE", url, status, body).
DeleteCollectionError(url, auth, response, body) ==
    IF response = SendError
    THEN <<68, 32>> \o redact_url(url) \o <<32>> \o ReqwestError(url)
    ELSE IF response \in 200..299 \/ response \in {404, 410} THEN NoError
    ELSE webdav_status_error(MethodText("DELETE"), url, response, body)

----------------------------------------------------------------------------
(* WebDAV settings: normalize, validate, set_webdav_sync_settings          *)
(* (settings.rs)                                                           *)

\* str::trim: the text without the spaces at its two ends.
Trim(text) ==
    IF \A i \in 1..Len(text) : text[i] = 32 THEN <<>>
    ELSE SubSeq(text,
                CHOOSE i \in 1..Len(text) :
                    text[i] # 32 /\ \A j \in 1..(i - 1) : text[j] = 32,
                CHOOSE i \in 1..Len(text) :
                    text[i] # 32 /\ \A j \in (i + 1)..Len(text) : text[j] = 32)

\* str::trim_end_matches(ch) and str::trim_matches(ch).
TrimEndMatches(text, ch) ==
    IF \A i \in 1..Len(text) : text[i] = ch THEN <<>>
    ELSE SubSeq(text, 1,
                CHOOSE i \in 1..Len(text) :
                    text[i] # ch /\ \A j \in (i + 1)..Len(text) : text[j] = ch)
TrimMatches(text, ch) ==
    IF \A i \in 1..Len(text) : text[i] = ch THEN <<>>
    ELSE Drop(TrimEndMatches(text, ch),
              (CHOOSE i \in 1..Len(text) :
                   text[i] # ch /\ \A j \in 1..(i - 1) : text[j] = ch) - 1)

\* str::split(ch): the pieces between the ch, the empty ones included.
RECURSIVE SplitOn(_, _, _)
SplitOn(text, ch, cur) ==
    IF text = <<>> THEN <<cur>>
    ELSE IF Head(text) = ch THEN <<cur>> \o SplitOn(Tail(text), ch, <<>>)
    ELSE SplitOn(Tail(text), ch, Append(cur, Head(text)))

\* sanitize_path_segment(raw).
sanitize_path_segment(raw) ==
    JoinPath(SelectSeq(SplitOn(TrimMatches(Trim(raw), Slash), Slash, <<>>),
                       LAMBDA piece : piece # <<>>))

default_webdav_timeout_secs == 20

\* format!("device-{}", now): "d" and the digit of the clock.
DeviceIdAt(now) == <<100, 48 + now>>

\* WebDavSyncSettings::normalize at clock `now`.
normalize(cfg, now) ==
    [cfg EXCEPT
        !.base_url = TrimEndMatches(Trim(@), Slash),
        !.remote_root = sanitize_path_segment(@),
        !.profile = sanitize_path_segment(@),
        !.username = Trim(@),
        !.password = Trim(@),
        !.timeout_secs = IF @ = 0 THEN default_webdav_timeout_secs ELSE @,
        !.device_id = IF Trim(@) = <<>> THEN DeviceIdAt(now) ELSE Trim(@)]

\* ASCII lower case of a text.
Lower(text) ==
    [i \in 1..Len(text) |-> IF text[i] \in 65..90 THEN text[i] + 32 ELSE text[i]]

\* "http", "https" and "ftp".
SchemeHttp == <<104, 116, 116, 112>>
SchemeHttps == <<104, 116, 116, 112, 115>>
SchemeFtp == <<102, 116, 112>>

\* Url::parse as far as validate uses it: [ok, scheme].  The scheme is the
\* letters before the first ':', in lower case; text without one is a
\* relative URL and no URL; a URL of a scheme with hosts needs a host.
ParseScheme(raw) ==
    LET colon == IndexOf(raw, 58)
        scheme == Lower(SubSeq(raw, 1, colon - 1))
        authority ==
            Let(TrimMatches(Drop(raw, colon), Slash) \o <<Slash>>, LAMBDA rest :
                SubSeq(rest, 1, IndexOf(rest, Slash) - 1))
        host == Drop(authority, LastIndexOf(authority, 64))
    IN  IF colon < 2 \/ \E i \in 1..Len(scheme) : scheme[i] \notin 97..122
        THEN [ok |-> FALSE, scheme |-> <<>>]
        ELSE IF scheme \in {SchemeHttp, SchemeHttps, SchemeFtp} /\ host = <<>>
        THEN [ok |-> FALSE, scheme |-> <<>>]
        ELSE [ok |-> TRUE, scheme |-> scheme]

\* A variant of validate that accepts every URL, whatever its scheme.
validate_any_scheme(cfg) ==
    IF ~cfg.enabled /\ cfg.base_url = <<>> THEN "Ok"
    ELSE IF cfg.base_url = <<>> THEN "EmptyBaseUrl"
    ELSE IF ~ParseScheme(cfg.base_url).ok THEN "NotAUrl"
    ELSE IF cfg.remote_root = <<>> \/ cfg.profile = <<>> THEN "EmptySegment"
    ELSE IF Contains(cfg.remote_root, DotDot) \/ Contains(cfg.profile, DotDot)
    THEN "DotDot"
    ELSE "Ok"

\* WebDavSyncSettings::validate: "Ok" or which InvalidInput it returns.
validate(cfg) ==
    IF ~cfg.enabled /\ cfg.base_url = <<>> THEN "Ok"
    ELSE IF cfg.base_url = <<>> THEN "EmptyBaseUrl"
    ELSE IF ~ParseScheme(cfg.base_url).ok THEN "NotAUrl"
    ELSE IF ParseScheme(cfg.base_url).scheme \notin {SchemeHttp, SchemeHttps}
    THEN "NotHttp"
    ELSE IF cfg.remote_root = <<>> \/ cfg.profile = <<>> THEN "EmptySegment"
    ELSE IF Contains(cfg.remote_root, DotDot) \/ Contains(cfg.profile, DotDot)
    THEN "DotDot"
    ELSE "Ok"

\* A variant of load_webdav_settings that only looks for stored settings.
load_webdav_settings_unchecked(st) ==
    IF st.mem = <<>> THEN "not_configured" ELSE "Ok"

\* load_webdav_settings: get_webdav_sync_settings() reads the in-memory
\* store; None is "not_configured", enabled = false is "not_enabled", and
\* then validate() decides.  "Ok" stands for Ok(settings).
load_webdav_settings(st) ==
    IF st.mem = <<>> THEN "not_configured"
    ELSE IF ~st.mem[1].enabled THEN "not_enabled"
    ELSE validate(st.mem[1])

\* The settings file no longer holds settings: a write that failed midway.
TornFile == <<[torn |-> TRUE]>>

\* update_settings(new_settings) with webdav_sync = `webdav`, already
\* normalized: save() writes the file, and only after it succeeds is the
\* in-memory store replaced.  saved = "ok", or save() fails with the file
\* untouched ("untouched") or partly written ("torn").
update_settings(st, webdav, saved) ==
    IF saved = "ok" THEN [err |-> "Ok", store |-> [mem |-> webdav, disk |-> webdav]]
    ELSE IF saved = "torn" THEN [err |-> "Io", store |-> [st EXCEPT !.disk = TornFile]]
    ELSE [err |-> "Io", store |-> st]

\* set_webdav_sync_settings(webdav_sync): given is <<>> (None) or <<cfg>>.
set_webdav_sync_settings(st, given, now, saved) ==
    IF given = <<>> THEN update_settings(st, <<>>, saved)
    ELSE Let(normalize(given[1], now), LAMBDA cfg :
             IF validate(cfg) # "Ok" THEN [err |-> validate(cfg), store |-> st]
             ELSE update_settings(st, <<cfg>>, saved))

----------------------------------------------------------------------------
(* Device name: normalize_device_name (mod.rs)                             *)

\* MAX_DEVICE_NAME_LEN (64 in the program), scaled.
MAX_DEVICE_NAME_LEN == 3

\* char::is_whitespace and char::is_control on the code points below 0x800.
is_whitespace(ch) == ch \in (9..13) \cup {32, 133, 160}
is_control(ch) == ch \in (0..31) \cup (127..159)

\* The fold of normalize_device_name: whitespace becomes ' ', other control
\* characters are dropped.
RECURSIVE Compact(_)
Compact(raw) ==
    IF raw = <<>> THEN <<>>
    ELSE (IF is_whitespace(Head(raw)) THEN <<32>>
          ELSE IF ~is_control(Head(raw)) THEN <<Head(raw)>>
          ELSE <<>>) \o Compact(Tail(raw))

\* str::split_whitespace: the non-empty pieces between whitespace.
RECURSIVE split_whitespace(_, _)
split_whitespace(text, cur) ==
    IF text = <<>> THEN (IF cur = <<>> THEN <<>> ELSE <<cur>>)
    ELSE IF is_whitespace(Head(text))
    THEN (IF cur = <<>> THEN <<>> ELSE <<cur>>) \o split_whitespace(Tail(text), <<>>)
    ELSE split_whitespace(Tail(text), Append(cur, Head(text)))

\* join(" ").
RECURSIVE JoinSpace(_)
JoinSpace(parts) ==
    IF parts = <<>> THEN <<>>
    ELSE IF Len(parts) = 1 THEN parts[1]
    ELSE parts[1] \o <<32>> \o JoinSpace(Tail(parts))

\* str::trim: the text without the whitespace at its two ends.
TrimWhitespace(text) ==
    IF \A i \in 1..Len(text) : is_whitespace(text[i]) THEN <<>>
    ELSE SubSeq(text,
                CHOOSE i \in 1..Len(text) :
                    ~is_whitespace(text[i]) /\ \A j \in 1..(i - 1) : is_whitespace(text[j]),
                CHOOSE i \in 1..Len(text) :
                    ~is_whitespace(text[i])
                    /\ \A j \in (i + 1)..Len(text) : is_whitespace(text[j]))

NoName == [some |-> FALSE, name |-> <<>>]
SomeName(text) == [some |-> TRUE, name |-> text]

\* normalize_device_name(raw): None or Some(name).
normalize_device_name(raw) ==
    Let(TrimWhitespace(JoinSpace(split_whitespace(Compact(raw), <<>>))), LAMBDA trimmed :
        IF trimmed = <<>> THEN NoName
        ELSE Let(SubSeq(trimmed, 1, Min(Len(trimmed), MAX_DEVICE_NAME_LEN)), LAMBDA limited :
                 IF limited = <<>> THEN NoName ELSE SomeName(limited)))

----------------------------------------------------------------------------
(* The values the model draws its inputs from                              *)

\* Database states, as the SQL text export_sql_string gives: "a" and "é".
Texts == {<<97>>, <<233>>}

\* Skills trees: one file; a directory with a file next to an empty file;
\* a directory and a link to it.
TreePlain == MkTree({<<<<NameA>>, FileNode(<<1>>)>>})
TreeNested ==
    MkTree({<<<<NameD>>, DirNode>>, <<<<NameD, NameA>>, FileNode(<<2>>)>>,
            <<<<NameB>>, FileNode(<<>>)>>})
TreeAlias ==
    MkTree({<<<<NameD>>, DirNode>>, <<<<NameD, NameA>>, FileNode(<<1>>)>>,
            <<<<NameL>>, LinkNode(<<NameD>>)>>})

LiveDirs == {NoDir, Dir(TreePlain), Dir(TreeNested), Dir(TreeAlias)}

\* A skills tree of MAX_ZIP_ENTRIES + 1 files and directories.
TreeWide ==
    MkTree({<<<<NameA>>, FileNode(<<1>>)>>, <<<<NameB>>, FileNode(<<>>)>>,
            <<<<NameD>>, DirNode>>, <<<<NameD, NameA>>, FileNode(<<2>>)>>})

\* The orders in which a directory listing may come: ascending, descending.
AllNames == {NameA, NameB, NameD, NameL, NameHidden}
Reverse(s) == [i \in 1..Len(s) |-> s[Len(s) + 1 - i]]
ListingOrders == {SortNames(AllNames), Reverse(SortNames(AllNames))}

\* How many attempts one behaviour starts.
MaxAttempts == 2

\* All sequences over S of length at most n.
RECURSIVE SeqsUpTo(_, _)
SeqsUpTo(S, n) ==
    IF n = 0 THEN {<<>>}
    ELSE Let(SeqsUpTo(S, n - 1), LAMBDA r :
             r \cup {Append(q, e) : q \in {x \in r : Len(x) = n - 1}, e \in S})

\* Archives handed to an unpack on its own: up to MaxArchiveEntries entries
\* with up to MaxDataLen bytes each, named "a", "d/", "d/a", "../a", "/a",
\* "d/../../a" or "d/../b"; and bytes that are no archive.
MaxArchiveEntries == 2
MaxDataLen == 4
EntryNames ==
    {NameA, Append(NameD, Slash), NameD \o <<Slash>> \o NameA,
     DotDot \o <<Slash>> \o NameA, <<Slash>> \o NameA,
     NameD \o <<Slash>> \o DotDot \o <<Slash>> \o DotDot \o <<Slash>> \o NameA,
     NameD \o <<Slash>> \o DotDot \o <<Slash>> \o NameB}
EntryData == {[i \in 1..n |-> i] : n \in 0..MaxDataLen}
ArchiveEntries == {Entry(n, d) : n \in EntryNames, d \in EntryData}
UnpackArchives ==
    {ZipEncode(es) : es \in SeqsUpTo(ArchiveEntries, MaxArchiveEntries)}
    \cup {<<1, 2, 3>>}

\* Trees handed to a pack on its own.  Without links: "a" and "b" each
\* absent, a file or an empty directory; "d" absent or a directory holding
\* a file "a" or not and an empty directory "b" or not.
FileContents == {<<>>, <<1>>, <<2, 3>>}
TopChoices(name) ==
    {{}, {<<<<name>>, DirNode>>}} \cup {{<<<<name>>, FileNode(c)>>} : c \in FileContents}
SubChoices ==
    {{}} \cup
    {{<<<<NameD>>, DirNode>>} \cup fa \cup db :
        fa \in {{}} \cup {{<<<<NameD, NameA>>, FileNode(c)>>} : c \in FileContents},
        db \in {{}, {<<<<NameD, NameB>>, DirNode>>}}}
PlainTrees ==
    {MkTree(x \cup y \cup z) : x \in TopChoices(NameA), y \in TopChoices(NameB),
                               z \in SubChoices}

\* With links: a link in "d" back to the root; a link in "d" to "d"; a link
\* "b" to the directory "d" listed after it; a link to a file; a link to
\* nothing; a link to itself; a link out of the root; a hidden file; a
\* hidden directory holding a file, and a link to that directory.
LinkTrees ==
    {MkTree({<<<<NameD>>, DirNode>>, <<<<NameD, NameL>>, LinkNode(<<>>)>>,
             <<<<NameA>>, FileNode(<<1>>)>>}),
     MkTree({<<<<NameD>>, DirNode>>, <<<<NameD, NameL>>, LinkNode(<<NameD>>)>>,
             <<<<NameD, NameA>>, FileNode(<<1>>)>>}),
     MkTree({<<<<NameD>>, DirNode>>, <<<<NameB>>, LinkNode(<<NameD>>)>>,
             <<<<NameD, NameA>>, FileNode(<<1>>)>>}),
     TreeAlias,
     MkTree({<<<<NameA>>, FileNode(<<1>>)>>, <<<<NameL>>, LinkNode(<<NameA>>)>>}),
     MkTree({<<<<NameA>>, FileNode(<<1>>)>>, <<<<NameL>>, LinkNode(<<NameB>>)>>}),
     MkTree({<<<<NameA>>, FileNode(<<1>>)>>, <<<<NameL>>, LinkNode(<<NameL>>)>>}),
     MkTree({<<<<NameA>>, FileNode(<<1>>)>>, <<<<NameL>>, LinkNode(OutsideTarget)>>}),
     MkTree({<<<<NameA>>, FileNode(<<1>>)>>, <<<<NameHidden>>, FileNode(<<2>>)>>}),
     MkTree({<<<<NameHidden>>, DirNode>>, <<<<NameHidden, NameA>>, FileNode(<<2>>)>>,
             <<<<NameL>>, LinkNode(<<NameHidden>>)>>})}

PackDirs == {NoDir} \cup {Dir(t) : t \in PlainTrees \cup LinkTrees}

\* Artifact maps handed to compute_snapshot_id on its own: built by up to
\* MaxInserts inserts of the two artifact names with the descriptors of three
\* byte strings, and one descriptor with the hash of the first and another
\* size.
MaxInserts == 3
Metas ==
    {ArtifactMeta(<<1>>), ArtifactMeta(<<2>>), ArtifactMeta(<<1, 2>>),
     [ArtifactMeta(<<1>>) EXCEPT !.size = 2]}
InsertSeqs ==
    SeqsUpTo({[name |-> n, meta |-> m] : n \in ArtifactNames, m \in Metas}, MaxInserts)

\* Wall-clock times at which a pack runs.
MaxPackTime == 2
PackTimes == 1..MaxPackTime

----------------------------------------------------------------------------
(* State                                                                   *)

\* Remote content this program did not write.  Archives: bytes that are no
\* archive; an entry named "../x" next to a plain one; one entry more than
\* MAX_ZIP_ENTRIES; one byte more than MAX_ZIP_EXTRACT_BYTES; a file entry
\* below a file entry.
ArchiveGarbage == <<1, 2, 3>>
ArchiveEscape ==
    ZipEncode(<<Entry(DotDot \o <<Slash, 120>>, <<5>>),
                Entry(NameA, <<6>>)>>)
ArchiveTooMany ==
    ZipEncode([i \in 1..(MAX_ZIP_ENTRIES + 1) |-> Entry(<<96 + i>>, <<>>)])
ArchiveTooBig ==
    ZipEncode(<<Entry(NameA, [i \in 1..(MAX_ZIP_EXTRACT_BYTES + 1) |-> 7])>>)
ArchiveClash ==
    ZipEncode(<<Entry(NameA, <<1>>),
                Entry(NameA \o <<Slash>> \o NameB, <<2>>)>>)
ForeignArchives ==
    {ArchiveGarbage, ArchiveEscape, ArchiveTooMany, ArchiveTooBig, ArchiveClash}

\* A database export that is not UTF-8.
ForeignDb == <<255>>

\* The remote directory holding the two byte strings and a manifest that
\* describes them.
SnapshotRemote(db_sql, skills_zip) ==
    [db |-> Object(db_sql), zip |-> Object(skills_zip),
     manifest |-> ManifestObject(SyncManifest(PROTOCOL_FORMAT, PROTOCOL_VERSION, 0,
                                              ArtifactsOf(db_sql, skills_zip)))]

\* A hash of the same length that differs from h.
OtherSha(h) == [i \in 1..Len(h) |-> (h[i] + 1) % 257]

\* Manifests that differ from manifest m in one respect: undecodable, longer
\* than MAX_MANIFEST_BYTES, another format, another version, an artifact
\* missing, a size or hash that is not the object's, a size over the ceiling.
ForeignManifests(m) ==
    {[m EXCEPT !.json = FALSE],
     [m EXCEPT !.len = MAX_MANIFEST_BYTES + 1],
     [m EXCEPT !.format = "cc-switch-webdav-sync-v1"],
     [m EXCEPT !.version = PROTOCOL_VERSION - 1],
     [m EXCEPT !.version = PROTOCOL_VERSION + 1],
     [m EXCEPT !.format = "other",
               !.artifacts = [n \in {REMOTE_DB_SQL} |-> m.artifacts[n]]],
     [m EXCEPT !.artifacts = [n \in {REMOTE_DB_SQL} |-> m.artifacts[n]]],
     [m EXCEPT !.artifacts = [n \in {REMOTE_SKILLS_ZIP} |-> m.artifacts[n]]],
     [m EXCEPT !.artifacts[REMOTE_DB_SQL].size = MAX_SYNC_ARTIFACT_BYTES + 1]}
    \cup {[m EXCEPT !.artifacts[n].size = @ + 1] : n \in ArtifactNames}
    \cup {[m EXCEPT !.artifacts[n].sha256 = OtherSha(@)] : n \in ArtifactNames}

\* The snapshot of another device: database "é", the nested tree.
PeerDb == Utf8Encode(<<233>>)
PeerZip == ZipEncode(zip_skills_ssot(Dir(TreeNested), SortNames(AllNames), 0).es)
PeerRemote == SnapshotRemote(PeerDb, PeerZip)

\* Database exports of exactly MAX_SYNC_ARTIFACT_BYTES bytes and of one byte
\* more.
DbAtCeiling == [i \in 1..MAX_SYNC_ARTIFACT_BYTES |-> 97]
DbOverCeiling == [i \in 1..(MAX_SYNC_ARTIFACT_BYTES + 1) |-> 97]

\* The remote directories a download may find.
HostileRemotes ==
    {PeerRemote,
     SnapshotRemote(DbAtCeiling, PeerZip),
     SnapshotRemote(DbOverCeiling, PeerZip),
     [PeerRemote EXCEPT !.db = Absent],
     [PeerRemote EXCEPT !.zip = Absent],
     [PeerRemote EXCEPT !.manifest = AbsentManifest],
     SnapshotRemote(ForeignDb, PeerZip)}
    \cup {[PeerRemote EXCEPT !.manifest.m = m] : m \in ForeignManifests(PeerRemote.manifest.m)}
    \cup {SnapshotRemote(PeerDb, z) : z \in ForeignArchives}

VARIABLES
    pc,        \* where the running attempt stands ("idle": none runs)
    remote,    \* the remote directory {root}/v2/{profile}/: db, zip, manifest
    db,        \* the local database, as the text its export gives
    ssot,      \* the live skills directory
    bak,       \* its sibling ssot.with_extension("bak")
    loc,       \* the locals of the running attempt
    outcome,   \* the running or last attempt: [op, res, err]
    log,       \* the remote requests of the running or last attempt
    pre,       \* the local (db, ssot) when the running or last attempt began
    attempts,  \* attempts started so far
    status,    \* the persisted WebDavSyncStatus
    arch,      \* a pack or unpack on its own: its input and what it gave
    call,      \* a call of a function on its own: [f, arg, ret]
    store,     \* the webdav_sync settings: [mem, disk], each <<>> or <<cfg>>
    peer,      \* another process uploading to the same remote path
    skill_method, \* the skill_sync_method setting: [mem, disk]
    threads    \* threads that update the settings: [pc, local, ret] each

vars ==
    <<pc, remote, db, ssot, bak, loc, outcome, log, pre, attempts, status, arch, call,
      store, peer, skill_method, threads>>

\* SyncMethod::default() in memory and in the settings file.
NoMethod == [mem |-> "Auto", disk |-> "Auto"]

\* No thread updates the settings.
NoThreads == <<>>

\* Locals of an attempt before it sets them.
NoLocals ==
    [db_sql |-> <<>>, skills_zip |-> <<>>, manifest |-> NoManifest,
     sql_str |-> <<>>, backup |-> NoDir, extracted |-> EmptyTree,
     ev |-> <<>>, evi |-> 0, copy_ok |-> TRUE, etag |-> FALSE]

EmptyRemote == [db |-> Absent, zip |-> Absent, manifest |-> AbsentManifest]

Request(method, name, ok) == [m |-> method, o |-> name, ok |-> ok]

\* The snapshot the other process builds in its n-th upload: database "é"
\* and the nested tree, then "ê" (as long as "é") and the plain tree, then
\* "é" and the plain tree, and so on.
MaxPeerUploads == 2
PlainZip == ZipEncode(zip_skills_ssot(Dir(TreePlain), SortNames(AllNames), 0).es)
PeerSnapshot(n) ==
    LET db_sql == IF n % 2 = 1 THEN PeerDb ELSE Utf8Encode(<<234>>)
        skills_zip == IF n = 1 THEN PeerZip ELSE PlainZip
    IN  [db_sql |-> db_sql, skills_zip |-> skills_zip,
         manifest |-> SyncManifest(PROTOCOL_FORMAT, PROTOCOL_VERSION, 10 + n,
                                   ArtifactsOf(db_sql, skills_zip))]

\* The other process has started no upload.
NoPeer ==
    [pc |-> "idle", n |-> 0, res |-> "none",
     db_sql |-> <<>>, skills_zip |-> <<>>, manifest |-> NoManifest]

\* No function is called on its own.
NoCall == [f |-> "none", arg |-> <<>>, ret |-> <<>>]

\* The passwords: "s3c" in the userinfo of a URL, "p4w" in the credential
\* pair.
UrlPassword == <<115, 51, 99>>
AuthPassword == <<112, 52, 119>>

\* WebDavAuth: None, or a user with or without a password.
NoAuth == [user |-> <<>>, password |-> <<>>]
Auths == {NoAuth, [user |-> <<117>>, password |-> <<>>],
          [user |-> <<117>>, password |-> AuthPassword]}

\* URLs: http://x/, http://u@x/, http://u:s3c@x/, http://u:s3c@x/a/,
\* http://u:s3c@j/ (a jianguoyun host), http://:s3c@x/ and x/ (no URL).
RequestUrls ==
    {HttpScheme \o <<120, 47>>,
     HttpScheme \o <<117, 64, 120, 47>>,
     HttpScheme \o <<117, 58>> \o UrlPassword \o <<64, 120, 47>>,
     HttpScheme \o <<117, 58>> \o UrlPassword \o <<64, 120, 47, 97, 47>>,
     HttpScheme \o <<117, 58>> \o UrlPassword \o <<64, 106, 47>>,
     HttpScheme \o <<58>> \o UrlPassword \o <<64, 120, 47>>,
     <<120, 47>>}

\* What one request may meet.
Responses == {SendError, 200, 201, 204, 207, 301, 403, 404, 405, 409, 410, 500}
ProbeResponses == {SendError, 207, 403, 404, 405}
MkcolResponses == {SendError, 201, 403, 405, 409, 500}
ResponseBodies == {<<>>, <<110, 111>>}
GetBodies == {"ok", "large", "broken"}

\* WebDavSyncStatus::default(): never synced.
NoStatus == [last_sync_at |-> 0, last_error |-> "", last_remote_etag |-> FALSE]

\* Settings a caller may give: base_url "", " ", "/", "http://x",
\* " http://x/ ", "HTTPS://x", "ftp://x", "x", "http://" and "htp://x";
\* remote_root "", " / ", "r", " /r//s/ ", ".." and "r/../s"; profile "p",
\* " " and "a..b".
BaseUrls ==
    {<<>>, <<32>>, <<Slash>>,
     SchemeHttp \o <<58, 47, 47, 120>>,
     <<32>> \o SchemeHttp \o <<58, 47, 47, 120, 47, 32>>,
     <<72, 84, 84, 80, 83, 58, 47, 47, 120>>,
     SchemeFtp \o <<58, 47, 47, 120>>,
     <<120>>,
     SchemeHttp \o <<58, 47, 47>>,
     <<104, 116, 112, 58, 47, 47, 120>>}
RemoteRoots ==
    {<<>>, <<32, 47, 32>>, <<114>>, <<32, 47, 114, 47, 47, 115, 47>>, DotDot,
     <<114, 47>> \o DotDot \o <<47, 115>>}
Profiles == {<<112>>, <<32>>, <<97>> \o DotDot \o <<98>>}
GivenSettings ==
    {<<>>} \cup
    {<<[enabled |-> e, base_url |-> b, remote_root |-> r, profile |-> p,
        username |-> <<32, 117>>, password |-> <<119, 32>>,
        device_id |-> d, timeout_secs |-> t, status |-> s]>> :
        e \in BOOLEAN, b \in BaseUrls, r \in RemoteRoots, p \in Profiles,
        d \in {<<32>>, <<32, 118>>}, t \in {0, 30},
        s \in {NoStatus, [NoStatus EXCEPT !.last_sync_at = 1]}}

\* What was stored before the call: nothing, or settings stored earlier.
StoredBefore ==
    [enabled |-> TRUE, base_url |-> SchemeHttp \o <<58, 47, 47, 111>>,
     remote_root |-> <<111>>, profile |-> <<111>>, username |-> <<111>>,
     password |-> <<111>>, device_id |-> <<111>>, timeout_secs |-> 20,
     status |-> NoStatus]
NoStore == [mem |-> <<>>, disk |-> <<>>]
Configured == [mem |-> <<StoredBefore>>, disk |-> <<StoredBefore>>]
Stores == {NoStore, Configured}

\* What the settings file may hold when the program starts (load() does not
\* validate it): nothing, the settings stored earlier, the same disabled,
\* disabled with an empty URL, or enabled with any of BaseUrls, a remote
\* root ".." or an empty profile.
LoadedSettings ==
    {<<>>, <<StoredBefore>>, <<[StoredBefore EXCEPT !.enabled = FALSE]>>,
     <<[StoredBefore EXCEPT !.enabled = FALSE, !.base_url = <<>>]>>,
     <<[StoredBefore EXCEPT !.remote_root = DotDot]>>,
     <<[StoredBefore EXCEPT !.profile = <<>>]>>}
    \cup {<<[StoredBefore EXCEPT !.base_url = b]>> : b \in BaseUrls}
ConfigStores == {[mem |-> c, disk |-> c] : c \in LoadedSettings}
SaveResults == {"ok", "untouched", "torn"}

\* Raw device names: up to MaxNameLen of 'a', 'é' (two bytes), ' ', TAB
\* (whitespace and control) and NUL (control).
MaxNameLen == 5
NameChars == {97, 233, 32, 9, 0}
RawNames == SeqsUpTo(NameChars, MaxNameLen)

\* What the requests for one directory may meet: any probe status with any
\* MKCOL status and any second probe status.
DirProbeResponses == {SendError, 200, 204, 207, 403, 404, 405}
DirMkcolResponses == {SendError, 200, 201, 301, 302, 307, 308, 403, 405, 409, 500}
DirResponses ==
    {<<r1, r2, r3>> : r1 \in DirProbeResponses, r2 \in DirMkcolResponses,
                      r3 \in DirProbeResponses}

\* For the directories of a chain: exists; created; MKCOL 405 and then
\* exists; MKCOL 409 and then missing; probe refused; MKCOL refused.
ChainResponses ==
    {<<207, 201, 207>>, <<404, 201, 207>>, <<405, 405, 200>>, <<404, 409, 404>>,
     <<403, 201, 207>>, <<404, 403, 207>>}

\* How many directories a chain has.
MaxSegments == 3

\* ensure_remote_directories on http://x/ without credentials: one
\* directory with every response, chains of up to MaxSegments directories.
EnsureCalls ==
    {[NoCall EXCEPT !.f = "ensure_chain",
                    !.arg = [url |-> HttpScheme \o <<120, 47>>, auth |-> NoAuth,
                             responses |-> rs]] :
        rs \in {<<r>> : r \in DirResponses}
                \cup {q \in SeqsUpTo(ChainResponses, MaxSegments) : Len(q) # 1}}

\* The arguments of get_bytes and the response it meets: no limit, the
\* manifest limit or the artifact limit; no declared length or one up to
\* two over the artifact limit; a body of up to one byte over the artifact
\* limit; the read of the body succeeds or fails.
BodyCalls ==
    {[NoCall EXCEPT !.f = "get_bytes_body",
                    !.arg = [max_bytes |-> mb, content_length |-> cl,
                             read_ok |-> ro, body |-> [i \in 1..n |-> 0]]] :
        mb \in {<<>>, <<MAX_MANIFEST_BYTES>>, <<MAX_SYNC_ARTIFACT_BYTES>>},
        cl \in {<<>>} \cup {<<k>> : k \in 0..(MAX_SYNC_ARTIFACT_BYTES + 2)},
        ro \in BOOLEAN,
        n \in 0..(MAX_SYNC_ARTIFACT_BYTES + 1)}

\* The arguments of one call of a remote-store operation and what its
\* requests meet.
RemoteCalls ==
    {[NoCall EXCEPT !.f = f,
                    !.arg = [url |-> u, auth |-> a, responses |-> <<r>>,
                             body |-> <<>>]] :
        f \in {"test_connection", "put_bytes", "head_etag"},
        u \in RequestUrls, a \in Auths, r \in Responses}
    \cup {[NoCall EXCEPT !.f = "get_bytes",
                         !.arg = [url |-> u, auth |-> a, responses |-> <<r>>,
                                  body |-> b]] :
             u \in RequestUrls, a \in Auths, r \in Responses, b \in GetBodies}
    \cup {[NoCall EXCEPT !.f = "delete_collection",
                         !.arg = [url |-> u, auth |-> a, responses |-> <<r>>,
                                  body |-> b]] :
             u \in RequestUrls, a \in Auths, r \in Responses, b \in ResponseBodies}
    \cup {[NoCall EXCEPT !.f = "ensure_remote_directories",
                         !.arg = [url |-> u, auth |-> a, responses |-> <<r1, r2, r3>>,
                                  body |-> <<>>]] :
             u \in RequestUrls, a \in Auths, r1 \in ProbeResponses,
             r2 \in MkcolResponses, r3 \in ProbeResponses}

\* No pack or unpack is run on its own.
NoPack == [ok |-> FALSE, es |-> <<>>, vis |-> {}]
NoArchive ==
    [tree |-> NoDir, runs |-> <<>>, pack |-> NoPack, again |-> NoPack, zip |-> <<>>,
     out |-> [ok |-> FALSE, t |-> EmptyTree, total |-> 0, outside |-> {}]]

\* No attempt has run (or the local state was changed since the last one).
NoOutcome == [op |-> "none", res |-> "none", err |-> ""]
Started(op) == [op |-> op, res |-> "running", err |-> ""]

\* The attempt ends: Ok(summary) or Err(error).
Finish(res, err) ==
    /\ pc' = "idle"
    /\ outcome' = [outcome EXCEPT !.res = res, !.err = err]
    /\ loc' = NoLocals

Running == pc # "idle"

----------------------------------------------------------------------------
(* upload()                                                                *)

\* The attempt `op` is entered: let settings = load_webdav_settings()?
Enter(op, first) ==
    \E r \in {load_webdav_settings(store)} :
        IF r = "Ok"
        THEN pc' = first /\ outcome' = Started(op)
        ELSE pc' = "idle" /\ outcome' = [op |-> op, res |-> "Failed", err |-> r]

\* WebDavSyncService::upload is called.
StartUpload ==
    /\ pc = "idle"
    /\ attempts < MaxAttempts
    /\ attempts' = attempts + 1
    /\ Enter("upload", "u_ensure")
    /\ log' = <<>>
    /\ pre' = [db |-> db, ssot |-> ssot]
    /\ loc' = NoLocals
    /\ UNCHANGED <<remote, db, ssot, bak, status, arch, call, store, peer, skill_method, threads>>

\* webdav::ensure_remote_directories(...).await?
UploadEnsureDirs ==
    /\ pc = "u_ensure"
    /\ \E ok \in BOOLEAN :
          /\ log' = Append(log, Request("MKCOL", "dir", ok))
          /\ IF ok
             THEN pc' = "u_build" /\ UNCHANGED <<outcome, loc>>
             ELSE Finish("Failed", "ensure_remote_directories")
    /\ UNCHANGED <<remote, db, ssot, bak, pre, attempts, status, arch, call, store, peer, skill_method, threads>>

\* build_local_snapshot: export the database (export_ok: tempdir,
\* Database::init and export_sql_string succeed), pack the skills tree
\* (pack_ok: the file-system calls of zip_skills_ssot and the read of the
\* archive succeed), hash both and build the manifest; any failure aborts
\* the build.
build_local_snapshot(export_ok, pack_ok, created_at, ord) ==
    Let(<<Utf8Encode(db), zip_skills_ssot(ssot, ord, created_at)>>, LAMBDA a :
    Let(ZipEncode(a[2].es), LAMBDA skills_zip :
        [ok |-> export_ok /\ pack_ok /\ a[2].ok,
         db_sql |-> a[1],
         skills_zip |-> skills_zip,
         manifest |-> SyncManifest(PROTOCOL_FORMAT, PROTOCOL_VERSION, created_at,
                                   ArtifactsOf(a[1], skills_zip))]))

\* A variant of UploadBuildSnapshot that sends each artifact as soon as it
\* is built: when the pack fails, db.sql has been PUT.
UploadBuildSnapshotStreaming ==
    /\ pc = "u_build"
    /\ \E export_ok \in BOOLEAN, pack_ok \in BOOLEAN, ord \in ListingOrders :
          \E snap \in {build_local_snapshot(export_ok, pack_ok, attempts, ord)} :
              IF snap.ok
              THEN /\ pc' = "u_put_db"
                   /\ loc' = [loc EXCEPT !.db_sql = snap.db_sql,
                                         !.skills_zip = snap.skills_zip,
                                         !.manifest = snap.manifest]
                   /\ UNCHANGED <<outcome, log, remote>>
              ELSE /\ Finish("Failed", "build_local_snapshot")
                   /\ IF export_ok
                      THEN /\ log' = Append(log, Request("PUT", REMOTE_DB_SQL, TRUE))
                           /\ remote' = [remote EXCEPT !.db = Object(snap.db_sql)]
                      ELSE UNCHANGED <<log, remote>>
    /\ UNCHANGED <<db, ssot, bak, pre, attempts, status, arch, call, store, peer, skill_method, threads>>

UploadBuildSnapshot ==
    /\ pc = "u_build"
    /\ \E export_ok \in BOOLEAN, pack_ok \in BOOLEAN, ord \in ListingOrders :
          \E snap \in {build_local_snapshot(export_ok, pack_ok, attempts, ord)} :
              IF snap.ok
              THEN /\ pc' = "u_put_db"
                   /\ loc' = [loc EXCEPT !.db_sql = snap.db_sql,
                                         !.skills_zip = snap.skills_zip,
                                         !.manifest = snap.manifest]
                   /\ UNCHANGED outcome
              ELSE Finish("Failed", "build_local_snapshot")
    /\ UNCHANGED <<remote, db, ssot, bak, log, pre, attempts, status, arch, call, store, peer, skill_method, threads>>

\* webdav::put_bytes: "ok" stores the body; "rejected" is a non-success
\* status or a request that never arrived; "lost" is a request the server
\* carried out whose response did not arrive (timeout): Err, body stored.
PutResults == {"ok", "rejected", "lost"}

\* A variant of put_bytes whose body never reaches the store.
put_bytes_not_stored(res, old, new) == old

put_bytes(res, old, new) == IF res = "rejected" THEN old ELSE new

\* A variant of AwaitPut in which upload goes on after a failed PUT.
AwaitPutIgnoringErr(res, next_pc) == pc' = next_pc /\ UNCHANGED <<outcome, loc>>

\* A variant of AwaitPut in which a failed PUT is sent again.
AwaitPutRetrying(res, next_pc) ==
    /\ pc' = IF res = "ok" THEN next_pc ELSE pc
    /\ UNCHANGED <<outcome, loc>>

\* A variant of AwaitPut in which a PUT that got no answer is awaited
\* without a timeout.
AwaitPutHanging(res, next_pc) ==
    IF res = "ok"
    THEN pc' = next_pc /\ UNCHANGED <<outcome, loc>>
    ELSE pc' = "hung" /\ UNCHANGED <<outcome, loc>>

\* put_bytes(...).await? in upload: Ok goes on to the next statement, Err
\* is returned.
AwaitPut(res, next_pc) ==
    IF res = "ok"
    THEN pc' = next_pc /\ UNCHANGED <<outcome, loc>>
    ELSE Finish("Failed", "put_bytes")

UploadPutDb ==
    /\ pc = "u_put_db"
    /\ \E res \in PutResults :
          /\ remote' = [remote EXCEPT !.db = put_bytes(res, @, Object(loc.db_sql))]
          /\ log' = Append(log, Request("PUT", REMOTE_DB_SQL, res = "ok"))
          /\ AwaitPut(res, "u_put_zip")
    /\ UNCHANGED <<db, ssot, bak, pre, attempts, status, arch, call, store, peer, skill_method, threads>>

UploadPutZip ==
    /\ pc = "u_put_zip"
    /\ \E res \in PutResults :
          /\ remote' = [remote EXCEPT !.zip = put_bytes(res, @, Object(loc.skills_zip))]
          /\ log' = Append(log, Request("PUT", REMOTE_SKILLS_ZIP, res = "ok"))
          /\ AwaitPut(res, "u_put_manifest")
    /\ UNCHANGED <<db, ssot, bak, pre, attempts, status, arch, call, store, peer, skill_method, threads>>

UploadPutManifest ==
    /\ pc = "u_put_manifest"
    /\ \E res \in PutResults :
          /\ remote' = [remote EXCEPT
                           !.manifest = put_bytes(res, @, ManifestObject(loc.manifest))]
          /\ log' = Append(log, Request("PUT", REMOTE_MANIFEST, res = "ok"))
          /\ AwaitPut(res, "u_head")
    /\ UNCHANGED <<db, ssot, bak, pre, attempts, status, arch, call, store, peer, skill_method, threads>>

\* What webdav::head_etag returns: Err, Ok(None) (404 or no ETag header)
\* or Ok(Some(etag)).
HeadResults == {"err", "none", "etag"}

\* The match on head_etag in upload: an error is logged and gives None.
EtagOf(head) == head = "etag"

UploadHeadEtag ==
    /\ pc = "u_head"
    /\ \E head \in HeadResults :
          /\ log' = Append(log, Request("HEAD", REMOTE_MANIFEST, head # "err"))
          /\ loc' = [loc EXCEPT !.etag = EtagOf(head)]
    /\ pc' = "u_persist"
    /\ UNCHANGED <<remote, db, ssot, bak, outcome, pre, attempts, status, arch, call, store, peer, skill_method, threads>>

\* persist_sync_success: the status of a successful attempt at time `now`
\* is handed to update_webdav_sync_status, which stores it or fails.
persist_sync_success(stored, now, etag) ==
    IF stored
    THEN [last_sync_at |-> now, last_error |-> "", last_remote_etag |-> etag]
    ELSE status

\* A variant of PersistBestEffort that returns the persistence error.
PersistOrFail(stored) ==
    IF stored THEN Finish("Done", "") ELSE Finish("Failed", "persist_sync_success")

\* persist_sync_success_best_effort followed by Ok(summary): a failure is
\* logged only and the returned bool is dropped.
PersistBestEffort(stored) == Finish("Done", "")

UploadPersist ==
    /\ pc = "u_persist"
    /\ \E stored \in BOOLEAN :
          /\ status' = persist_sync_success(stored, attempts, loc.etag)
          /\ PersistBestEffort(stored)
    /\ UNCHANGED <<remote, db, ssot, bak, log, pre, attempts, arch, call, store, peer, skill_method, threads>>

----------------------------------------------------------------------------
(* download()                                                              *)

\* The Content-Length a response may report for a body of length len under
\* a limit: none (-1), the true one, or a wrong one above the limit.
DeclaredLengths(len, limit) == {-1, len, limit + 1}

\* WebDavSyncService::download is called.
StartDownload ==
    /\ pc = "idle"
    /\ attempts < MaxAttempts
    /\ attempts' = attempts + 1
    /\ Enter("download", "d_get_manifest")
    /\ log' = <<>>
    /\ pre' = [db |-> db, ssot |-> ssot]
    /\ loc' = NoLocals
    /\ UNCHANGED <<remote, db, ssot, bak, status, arch, call, store, peer, skill_method, threads>>

\* get_bytes(manifest_url, Some(MAX_MANIFEST_BYTES)), serde_json::from_slice
\* and validate_manifest_compat.
DownloadGetManifest ==
    /\ pc = "d_get_manifest"
    /\ \E sent \in BOOLEAN, etag \in BOOLEAN,
          declared \in DeclaredLengths(remote.manifest.m.len, MAX_MANIFEST_BYTES) :
          LET o == remote.manifest
              g == get_bytes(o.present, o.m.len, MAX_MANIFEST_BYTES, sent, declared)
          IN  /\ log' = Append(log, Request("GET", REMOTE_MANIFEST, g = "ok"))
              /\ IF g = "err" THEN Finish("Failed", "transport")
                 ELSE IF g = "too_large" THEN Finish("Failed", "response_too_large")
                 ELSE IF g = "none" THEN Finish("Failed", "remote_empty")
                 ELSE IF ~o.m.json THEN Finish("Failed", "manifest_json")
                 ELSE IF validate_manifest_compat(o.m) # "ok"
                 THEN Finish("Failed", validate_manifest_compat(o.m))
                 ELSE /\ pc' = "d_get_db"
                      /\ loc' = [loc EXCEPT !.manifest = o.m, !.etag = etag]
                      /\ UNCHANGED outcome
    /\ UNCHANGED <<remote, db, ssot, bak, pre, attempts, status, arch, call, store, peer, skill_method, threads>>

\* download_and_verify(settings, auth, artifact_name, &manifest.artifacts)
\* against remote object o; on success the bytes go to the local `field`.
DownloadArtifact(artifact_name, o, field, next_pc) ==
    IF ~IssuesGet(artifact_name, loc.manifest.artifacts)
    THEN /\ Finish("Failed", download_and_verify(artifact_name,
                                 loc.manifest.artifacts, "skip", <<>>))
         /\ UNCHANGED log
    ELSE \E sent \in BOOLEAN,
            declared \in DeclaredLengths(Len(o.bytes), MAX_SYNC_ARTIFACT_BYTES) :
            LET g == get_bytes(o.present, Len(o.bytes), MAX_SYNC_ARTIFACT_BYTES,
                               sent, declared)
                r == download_and_verify(artifact_name, loc.manifest.artifacts,
                                         g, o.bytes)
            IN  /\ log' = Append(log, Request("GET", artifact_name, g = "ok"))
                /\ IF r = "ok"
                   THEN /\ pc' = next_pc
                        /\ loc' = [loc EXCEPT ![field] = o.bytes]
                        /\ UNCHANGED outcome
                   ELSE Finish("Failed", r)

DownloadGetDb ==
    /\ pc = "d_get_db"
    /\ DownloadArtifact(REMOTE_DB_SQL, remote.db, "db_sql", "d_get_zip")
    /\ UNCHANGED <<remote, db, ssot, bak, pre, attempts, status, arch, call, store, peer, skill_method, threads>>

DownloadGetZip ==
    /\ pc = "d_get_zip"
    /\ DownloadArtifact(REMOTE_SKILLS_ZIP, remote.zip, "skills_zip", "a_utf8")
    /\ UNCHANGED <<remote, db, ssot, bak, pre, attempts, status, arch, call, store, peer, skill_method, threads>>

DownloadPersist ==
    /\ pc = "d_persist"
    /\ \E stored \in BOOLEAN :
          /\ status' = persist_sync_success(stored, attempts, loc.etag)
          /\ PersistBestEffort(stored)
    /\ UNCHANGED <<remote, db, ssot, bak, log, pre, attempts, arch, call, store, peer, skill_method, threads>>

----------------------------------------------------------------------------
(* upload() run by another process on the same remote path                 *)

\* The other process calls upload and has built its snapshot.
PeerStartUpload ==
    /\ peer.pc = "idle"
    /\ peer.n < MaxPeerUploads
    /\ \E snap \in {PeerSnapshot(peer.n + 1)} :
          peer' = [pc |-> "put_db", n |-> peer.n + 1, res |-> "none",
                   db_sql |-> snap.db_sql, skills_zip |-> snap.skills_zip,
                   manifest |-> snap.manifest]
    /\ UNCHANGED <<pc, remote, db, ssot, bak, loc, outcome, log, pre, attempts, status,
                   arch, call, store, skill_method, threads>>

\* put_bytes(...).await? in the other process: Ok goes on to the next
\* statement (after the manifest: to the tail, which sends no PUT), Err ends
\* the attempt.
PeerAwaitPut(res, next_pc) ==
    peer' = IF res # "ok" THEN [peer EXCEPT !.pc = "idle", !.res = "Failed"]
            ELSE IF next_pc = "idle" THEN [peer EXCEPT !.pc = "idle", !.res = "Done"]
            ELSE [peer EXCEPT !.pc = next_pc]

PeerPutDb ==
    /\ peer.pc = "put_db"
    /\ \E res \in PutResults :
          /\ remote' = [remote EXCEPT !.db = put_bytes(res, @, Object(peer.db_sql))]
          /\ PeerAwaitPut(res, "put_zip")
    /\ UNCHANGED <<pc, db, ssot, bak, loc, outcome, log, pre, attempts, status,
                   arch, call, store, skill_method, threads>>

PeerPutZip ==
    /\ peer.pc = "put_zip"
    /\ \E res \in PutResults :
          /\ remote' = [remote EXCEPT !.zip = put_bytes(res, @, Object(peer.skills_zip))]
          /\ PeerAwaitPut(res, "put_manifest")
    /\ UNCHANGED <<pc, db, ssot, bak, loc, outcome, log, pre, attempts, status,
                   arch, call, store, skill_method, threads>>

PeerPutManifest ==
    /\ peer.pc = "put_manifest"
    /\ \E res \in PutResults :
          /\ remote' = [remote EXCEPT
                           !.manifest = put_bytes(res, @, ManifestObject(peer.manifest))]
          /\ PeerAwaitPut(res, "idle")
    /\ UNCHANGED <<pc, db, ssot, bak, loc, outcome, log, pre, attempts, status,
                   arch, call, store, skill_method, threads>>

----------------------------------------------------------------------------
(* apply_snapshot, SkillsBackup and the replacement in restore_skills_zip  *)

\* What a failed fs::remove_dir_all may leave of directory d: all of it, or
\* all but one of its top-level entries (with what is below it).
RemoveFailOutcomes(d) ==
    {d} \cup
    {Dir([q \in {r \in DOMAIN d.t : r[1] # n} |-> d.t[q]]) :
        n \in read_dir(d.t, <<>>)}

\* fs::rename(from, to) of directories succeeds when the target does not
\* exist or is an empty directory.
CanRename(to) == ~to.exists \/ DOMAIN to.t = {}

\* The locals when copy_dir_recursive(src, dest) starts: its writes, none
\* of them made yet.
BeginCopy(src, ord) ==
    Let(copy_dir_recursive(src, ord), LAMBDA c :
        [loc EXCEPT !.ev = c.ev, !.evi = 0, !.copy_ok = c.ok])

\* A variant of ApplyUtf8 that converts as String::from_utf8_lossy does:
\* it never fails, and the text of invalid bytes is one replacement
\* character.
ApplyUtf8Lossy ==
    /\ pc = "a_utf8"
    /\ \E d \in {Utf8Decode(loc.db_sql)} :
           /\ pc' = "a_backup"
           /\ loc' = [loc EXCEPT !.sql_str = IF d.ok THEN d.text ELSE <<1021>>]
           /\ UNCHANGED outcome
    /\ UNCHANGED <<remote, db, ssot, bak, log, pre, attempts, status, arch, call, store, peer, skill_method, threads>>

\* std::str::from_utf8(db_sql)
ApplyUtf8 ==
    /\ pc = "a_utf8"
    /\ \E d \in {Utf8Decode(loc.db_sql)} :
           IF d.ok
           THEN /\ pc' = "a_backup"
                /\ loc' = [loc EXCEPT !.sql_str = d.text]
                /\ UNCHANGED outcome
           ELSE Finish("Failed", "sql_not_utf8")
    /\ UNCHANGED <<remote, db, ssot, bak, log, pre, attempts, status, arch, call, store, peer, skill_method, threads>>

\* SkillsBackup::backup_current_skills: the live tree is copied to
\* skills-backup in a temporary directory (nothing is copied, and
\* skills-backup does not exist, when there is no live tree).
backup_current_skills(d, ord) ==
    Let(copy_dir_recursive(d, ord), LAMBDA c :
        [ok |-> c.ok, backup_path |-> ApplyWrites(NoDir, c.ev, Len(c.ev))])

ApplyBackup ==
    /\ pc = "a_backup"
    /\ \E io_ok \in BOOLEAN, ord \in ListingOrders :
          \E b \in {backup_current_skills(ssot, ord)} :
              IF io_ok /\ b.ok
              THEN /\ pc' = "r_unpack"
                   /\ loc' = [loc EXCEPT !.backup = b.backup_path]
                   /\ UNCHANGED outcome
              ELSE Finish("Failed", "backup_current_skills")
    /\ UNCHANGED <<remote, db, ssot, bak, log, pre, attempts, status, arch, call, store, peer, skill_method, threads>>

\* A variant of RestoreUnpack that extracts into the live location: what
\* was extracted when the unpack failed is there.
RestoreUnpackInPlace ==
    /\ pc = "r_unpack"
    /\ \E io_ok \in BOOLEAN :
          \E u \in {Unpack(loc.skills_zip)} :
              IF io_ok /\ u.ok
              THEN /\ pc' = "r_prepare"
                   /\ loc' = [loc EXCEPT !.extracted = u.t]
                   /\ UNCHANGED <<outcome, ssot>>
              ELSE /\ Finish("Failed", "restore_skills_zip")
                   /\ ssot' = Dir(u.t)
    /\ UNCHANGED <<remote, db, bak, log, pre, attempts, status, arch, call, store, peer, skill_method, threads>>

\* restore_skills_zip, lines 213-269: the archive is parsed and extracted
\* into a scratch directory.
RestoreUnpack ==
    /\ pc = "r_unpack"
    /\ \E io_ok \in BOOLEAN :
          \E u \in {Unpack(loc.skills_zip)} :
              IF io_ok /\ u.ok
              THEN /\ pc' = "r_prepare"
                   /\ loc' = [loc EXCEPT !.extracted = u.t]
                   /\ UNCHANGED outcome
              ELSE Finish("Failed", "restore_skills_zip")
    /\ UNCHANGED <<remote, db, ssot, bak, log, pre, attempts, status, arch, call, store, peer, skill_method, threads>>

\* restore_skills_zip, lines 275-278: with a live tree, a .bak that exists
\* is removed (the result is ignored); without one the copy starts.
RestorePrepare ==
    /\ pc = "r_prepare"
    /\ IF ssot.exists
       THEN /\ pc' = "r_rename"
            /\ IF bak.exists
               THEN \E removed \in BOOLEAN :
                       bak' \in IF removed THEN {NoDir} ELSE RemoveFailOutcomes(bak)
               ELSE UNCHANGED bak
            /\ UNCHANGED loc
       ELSE /\ pc' = "r_copy"
            /\ \E ord \in ListingOrders :
                  loc' = BeginCopy(Dir(loc.extracted), ord)
            /\ UNCHANGED bak
    /\ UNCHANGED <<remote, db, ssot, outcome, log, pre, attempts, status, arch, call, store, peer, skill_method, threads>>

\* A variant of RestoreRename that copies the live tree to .bak and leaves
\* it in place.
RestoreRenameKeepingLive ==
    /\ pc = "r_rename"
    /\ \E io_ok \in BOOLEAN, ord \in ListingOrders :
          IF io_ok /\ CanRename(bak)
          THEN /\ bak' = ssot
               /\ ssot' = ssot
               /\ pc' = "r_copy"
               /\ loc' = BeginCopy(Dir(loc.extracted), ord)
               /\ UNCHANGED outcome
          ELSE /\ Finish("Failed", "rename")
               /\ UNCHANGED <<ssot, bak>>
    /\ UNCHANGED <<remote, db, log, pre, attempts, status, arch, call, store, peer, skill_method, threads>>

\* restore_skills_zip, line 279: fs::rename(&ssot, &bak)?
RestoreRename ==
    /\ pc = "r_rename"
    /\ \E io_ok \in BOOLEAN, ord \in ListingOrders :
          IF io_ok /\ CanRename(bak)
          THEN /\ bak' = ssot
               /\ ssot' = NoDir
               /\ pc' = "r_copy"
               /\ loc' = BeginCopy(Dir(loc.extracted), ord)
               /\ UNCHANGED outcome
          ELSE /\ Finish("Failed", "rename")
               /\ UNCHANGED <<ssot, bak>>
    /\ UNCHANGED <<remote, db, log, pre, attempts, status, arch, call, store, peer, skill_method, threads>>

\* restore_skills_zip, line 282: copy_dir_recursive(&extracted, &ssot), one
\* write at a time; any write may fail.
RestoreCopy ==
    /\ pc = "r_copy"
    /\ IF loc.evi < Len(loc.ev)
       THEN \E io_ok \in BOOLEAN :
               IF io_ok
               THEN /\ ssot' = ApplyWrite(ssot, loc.ev[loc.evi + 1])
                    /\ loc' = [loc EXCEPT !.evi = @ + 1]
                    /\ pc' = pc
               ELSE /\ pc' = "r_undo_rm"
                    /\ UNCHANGED <<ssot, loc>>
       ELSE /\ pc' = IF loc.copy_ok THEN "r_cleanup" ELSE "r_undo_rm"
            /\ UNCHANGED <<ssot, loc>>
    /\ UNCHANGED <<remote, db, bak, outcome, log, pre, attempts, status, arch, call, store, peer, skill_method, threads>>

\* restore_skills_zip, lines 283-284: the copy failed; with a .bak the
\* partial live tree is removed (the result is ignored).
RestoreUndoRemove ==
    /\ pc = "r_undo_rm"
    /\ IF bak.exists
       THEN /\ \E removed \in BOOLEAN :
                  ssot' \in IF removed \/ ~ssot.exists THEN {NoDir}
                            ELSE RemoveFailOutcomes(ssot)
            /\ pc' = "r_undo_mv"
            /\ UNCHANGED <<outcome, loc>>
       ELSE /\ Finish("Failed", "copy_dir_recursive")
            /\ UNCHANGED ssot
    /\ UNCHANGED <<remote, db, bak, log, pre, attempts, status, arch, call, store, peer, skill_method, threads>>

\* restore_skills_zip, lines 285-287: fs::rename(&bak, &ssot), the result
\* ignored; return Err(e).
RestoreUndoRename ==
    /\ pc = "r_undo_mv"
    /\ \E io_ok \in BOOLEAN :
          IF io_ok /\ CanRename(ssot)
          THEN ssot' = bak /\ bak' = NoDir
          ELSE UNCHANGED <<ssot, bak>>
    /\ Finish("Failed", "copy_dir_recursive")
    /\ UNCHANGED <<remote, db, log, pre, attempts, status, arch, call, store, peer, skill_method, threads>>

\* restore_skills_zip, line 290: let _ = fs::remove_dir_all(&bak); Ok(())
RestoreCleanup ==
    /\ pc = "r_cleanup"
    /\ \E removed \in BOOLEAN :
          bak' \in IF removed \/ ~bak.exists THEN {NoDir} ELSE RemoveFailOutcomes(bak)
    /\ pc' = "a_dbinit"
    /\ UNCHANGED <<remote, db, ssot, loc, outcome, log, pre, attempts, status, arch, call, store, peer, skill_method, threads>>


\* apply_snapshot, line 448: Database::init()? returns its error at once.
ApplyDbInit ==
    /\ pc = "a_dbinit"
    /\ \E init_ok \in BOOLEAN :
          IF init_ok
          THEN pc' = "a_import" /\ UNCHANGED <<outcome, loc>>
          ELSE Finish("Failed", "database_init")
    /\ UNCHANGED <<remote, db, ssot, bak, log, pre, attempts, status, arch, call, store, peer, skill_method, threads>>

\* Database::import_sql_string(sql_str): on success the database holds the
\* imported state, on failure it is left as it was.
import_sql_string(old, sql_str, import_ok) == IF import_ok THEN sql_str ELSE old

\* apply_snapshot, lines 448-459: the import; its failure starts the
\* rollback of the skills tree.
ApplyImport ==
    /\ pc = "a_import"
    /\ \E import_ok \in BOOLEAN :
          /\ db' = import_sql_string(db, loc.sql_str, import_ok)
          /\ pc' = IF import_ok THEN "d_persist" ELSE "s_remove"
    /\ UNCHANGED <<remote, ssot, bak, loc, outcome, log, pre, attempts, status, arch, call, store, peer, skill_method, threads>>

\* SkillsBackup::restore, lines 66-69: the live tree is removed; without a
\* skills-backup directory the rollback is complete.
BackupRestoreRemove ==
    /\ pc = "s_remove"
    /\ \E removed \in BOOLEAN, ord \in ListingOrders :
          IF removed \/ ~ssot.exists
          THEN /\ ssot' = NoDir
               /\ IF loc.backup.exists
                  THEN /\ pc' = "s_copy"
                       /\ loc' = BeginCopy(loc.backup, ord)
                       /\ UNCHANGED outcome
                  ELSE Finish("Failed", "db_import")
          ELSE /\ ssot' \in RemoveFailOutcomes(ssot)
               /\ Finish("Failed", "db_import_and_rollback_failed")
    /\ UNCHANGED <<remote, db, bak, log, pre, attempts, status, arch, call, store, peer, skill_method, threads>>

\* SkillsBackup::restore, lines 70-74: create_dir_all(ssot) and
\* copy_dir_recursive(backup_path, ssot), one write at a time.
BackupRestoreCopy ==
    /\ pc = "s_copy"
    /\ IF loc.evi < Len(loc.ev)
       THEN \E io_ok \in BOOLEAN :
               IF io_ok
               THEN /\ ssot' = ApplyWrite(ssot, loc.ev[loc.evi + 1])
                    /\ loc' = [loc EXCEPT !.evi = @ + 1]
                    /\ UNCHANGED <<pc, outcome>>
               ELSE /\ Finish("Failed", "db_import_and_rollback_failed")
                    /\ UNCHANGED ssot
       ELSE /\ Finish("Failed", IF loc.copy_ok THEN "db_import"
                                ELSE "db_import_and_rollback_failed")
            /\ UNCHANGED ssot
    /\ UNCHANGED <<remote, db, bak, log, pre, attempts, status, arch, call, store, peer, skill_method, threads>>

----------------------------------------------------------------------------
(* check_connection()                                                      *)

\* WebDavSyncService::check_connection is called.
StartCheckConnection ==
    /\ pc = "idle"
    /\ attempts < MaxAttempts
    /\ attempts' = attempts + 1
    /\ Enter("check_connection", "c_test")
    /\ log' = <<>>
    /\ pre' = [db |-> db, ssot |-> ssot]
    /\ loc' = NoLocals
    /\ UNCHANGED <<remote, db, ssot, bak, status, arch, call, store, peer, skill_method, threads>>

\* webdav::test_connection(&settings.base_url, &auth).await?
CheckTestConnection ==
    /\ pc = "c_test"
    /\ \E ok \in BOOLEAN :
          /\ log' = Append(log, Request("PROPFIND", "base", ok))
          /\ IF ok
             THEN pc' = "c_ensure" /\ UNCHANGED <<outcome, loc>>
             ELSE Finish("Failed", "test_connection")
    /\ UNCHANGED <<remote, db, ssot, bak, pre, attempts, status, arch, call, store, peer, skill_method, threads>>

\* webdav::ensure_remote_directories(...).await?; Ok(())
CheckEnsureDirs ==
    /\ pc = "c_ensure"
    /\ \E ok \in BOOLEAN :
          /\ log' = Append(log, Request("MKCOL", "dir", ok))
          /\ IF ok
             THEN Finish("Done", "")
             ELSE Finish("Failed", "ensure_remote_directories")
    /\ UNCHANGED <<remote, db, ssot, bak, pre, attempts, status, arch, call, store, peer, skill_method, threads>>

----------------------------------------------------------------------------
(* Environment                                                             *)

\* The process stops in the middle of an attempt; what it wrote stays.
Crash ==
    /\ Running
    /\ Finish("Crashed", pc)
    /\ UNCHANGED <<remote, db, ssot, bak, log, pre, attempts, status, arch, call, store, peer, skill_method, threads>>

\* Between attempts the application changes its database and skills tree.
LocalEdit ==
    /\ pc = "idle"
    /\ \E d \in Texts, s \in LiveDirs :
          /\ <<d, s>> # <<db, ssot>>
          /\ db' = d
          /\ ssot' = s
    /\ outcome' = NoOutcome
    /\ log' = <<>>
    /\ pre' = [db |-> db', ssot |-> ssot']
    /\ UNCHANGED <<pc, remote, bak, loc, attempts, status, arch, call, store, peer, skill_method, threads>>

----------------------------------------------------------------------------
(* Pack and unpack on their own                                            *)

\* zip_skills_ssot packs arch.tree; ZipWriter::finish gives the bytes.
ArchivePack ==
    /\ pc = "x_pack"
    /\ \E ord \in ListingOrders, now \in PackTimes :
          \E r \in {zip_skills_ssot(arch.tree, ord, now)} :
              arch' = [arch EXCEPT !.runs = Append(@, [ord |-> ord, now |-> now]),
                                   !.pack = r,
                                   !.zip = IF r.ok THEN ZipEncode(r.es) ELSE <<>>]
    /\ pc' = "x_repack"
    /\ UNCHANGED <<remote, db, ssot, bak, loc, outcome, log, pre, attempts, status, call, store, peer, skill_method, threads>>

\* zip_skills_ssot packs the same tree once more, at another time and with
\* the directory listings in another order.
ArchiveRepack ==
    /\ pc = "x_repack"
    /\ \E ord \in ListingOrders, now \in PackTimes :
          arch' = [arch EXCEPT !.runs = Append(@, [ord |-> ord, now |-> now]),
                               !.again = zip_skills_ssot(arch.tree, ord, now)]
    /\ pc' = IF arch.pack.ok THEN "x_unpack" ELSE "x_done"
    /\ UNCHANGED <<remote, db, ssot, bak, loc, outcome, log, pre, attempts, status, call, store, peer, skill_method, threads>>

\* The extraction loop of restore_skills_zip applied to arch.zip.
ArchiveUnpack ==
    /\ pc = "x_unpack"
    /\ arch' = [arch EXCEPT !.out = Unpack(arch.zip)]
    /\ pc' = "x_done"
    /\ UNCHANGED <<remote, db, ssot, bak, loc, outcome, log, pre, attempts, status, call, store, peer, skill_method, threads>>

----------------------------------------------------------------------------
(* Functions on their own                                                  *)

Returns(value) ==
    /\ pc' = "f_done"
    /\ call' = [call EXCEPT !.ret = value]
    /\ UNCHANGED <<remote, db, ssot, bak, loc, outcome, log, pre, attempts, status, arch,
                   store, peer, skill_method, threads>>

\* compute_snapshot_id(&artifacts) for the map the inserts call.arg built.
CallComputeSnapshotId ==
    /\ pc = "f_call"
    /\ call.f = "compute_snapshot_id"
    /\ Returns(compute_snapshot_id(BTreeMapOf(call.arg)))

\* One call of each remote-store operation with the arguments and the
\* responses of call.arg.
CallTestConnection ==
    /\ pc = "f_call"
    /\ call.f = "test_connection"
    /\ Returns(TestConnectionError(call.arg.url, call.arg.auth, call.arg.responses[1]))

CallPutBytes ==
    /\ pc = "f_call"
    /\ call.f = "put_bytes"
    /\ Returns(PutBytesError(call.arg.url, call.arg.auth, call.arg.responses[1]))

CallGetBytes ==
    /\ pc = "f_call"
    /\ call.f = "get_bytes"
    /\ Returns(GetBytesError(call.arg.url, call.arg.auth, call.arg.responses[1],
                             call.arg.body))

CallGetBytesBody ==
    /\ pc = "f_call"
    /\ call.f = "get_bytes_body"
    /\ Returns(get_bytes_body(call.arg.max_bytes, call.arg.content_length,
                              call.arg.read_ok, call.arg.body))

CallHeadEtag ==
    /\ pc = "f_call"
    /\ call.f = "head_etag"
    /\ Returns(HeadEtagError(call.arg.url, call.arg.auth, call.arg.responses[1]))

CallEnsureRemoteDirectories ==
    /\ pc = "f_call"
    /\ call.f = "ensure_remote_directories"
    /\ Returns(EnsureRemoteDirectoriesError(call.arg.url, call.arg.auth,
                                            call.arg.responses))

CallEnsureChain ==
    /\ pc = "f_call"
    /\ call.f = "ensure_chain"
    /\ Returns(ensure_remote_directories(call.arg.url, call.arg.auth,
                                         call.arg.responses, 1))

CallDeleteCollection ==
    /\ pc = "f_call"
    /\ call.f = "delete_collection"
    /\ Returns(DeleteCollectionError(call.arg.url, call.arg.auth,
                                     call.arg.responses[1], call.arg.body))

\* normalize_device_name(call.arg).
CallNormalizeDeviceName ==
    /\ pc = "f_call"
    /\ call.f = "normalize_device_name"
    /\ Returns(normalize_device_name(call.arg))

\* set_webdav_sync_settings(call.arg) at any clock and with any result of
\* writing the settings file; the status is part of the settings in memory.
CallSetWebdavSyncSettings ==
    /\ pc = "f_call"
    /\ call.f = "set_webdav_sync_settings"
    /\ \E now \in PackTimes, saved \in SaveResults :
          \E r \in {set_webdav_sync_settings(store, call.arg, now, saved)} :
             /\ store' = r.store
             /\ call' = [call EXCEPT !.ret = r.err]
             /\ status' = IF r.err # "Ok" THEN status
                           ELSE IF r.store.mem = <<>> THEN NoStatus
                           ELSE r.store.mem[1].status
    /\ pc' = "f_done"
    /\ UNCHANGED <<remote, db, ssot, bak, loc, outcome, log, pre, attempts, arch, peer, skill_method, threads>>

----------------------------------------------------------------------------
(* Settings updates by two threads                                         *)

\* One thread calls set_webdav_sync_settings, another set_skill_sync_method.
Threads == {"webdav", "skill"}

\* get_settings(): a clone of the settings in memory, under the read lock.
get_settings == [webdav_sync |-> store.mem, skill_sync_method |-> skill_method.mem]

\* The thread's call returns.
ThreadReturns(t, ret) ==
    threads' = [threads EXCEPT ![t].pc = "done", ![t].ret = ret]

\* set_webdav_sync_settings, up to the call of update_settings: the clone
\* of the settings gets the normalized and validated argument.
SetWebdavSyncSettingsGet ==
    /\ pc = "t_run"
    /\ threads["webdav"].pc = "start"
    /\ \E now \in PackTimes, given \in {threads["webdav"].arg} :
          IF given = <<>>
          THEN threads' = [threads EXCEPT
                              !["webdav"].pc = "save",
                              !["webdav"].local = [get_settings EXCEPT !.webdav_sync = <<>>]]
          ELSE \E cfg \in {normalize(given[1], now)} :
                  IF validate(cfg) # "Ok"
                  THEN ThreadReturns("webdav", validate(cfg))
                  ELSE threads' = [threads EXCEPT
                                      !["webdav"].pc = "save",
                                      !["webdav"].local =
                                          [get_settings EXCEPT !.webdav_sync = <<cfg>>]]
    /\ UNCHANGED <<pc, remote, db, ssot, bak, loc, outcome, log, pre, attempts, status,
                   arch, call, store, peer, skill_method>>

\* set_skill_sync_method, up to the call of update_settings.
SetSkillSyncMethodGet ==
    /\ pc = "t_run"
    /\ threads["skill"].pc = "start"
    /\ threads' = [threads EXCEPT
                      !["skill"].pc = "save",
                      !["skill"].local =
                          [get_settings EXCEPT !.skill_sync_method = threads["skill"].arg]]
    /\ UNCHANGED <<pc, remote, db, ssot, bak, loc, outcome, log, pre, attempts, status,
                   arch, call, store, peer, skill_method>>

\* update_settings: new_settings.save()? writes the whole settings file,
\* holding no lock; saved is as in update_settings above.
UpdateSettingsSave(t) ==
    /\ pc = "t_run"
    /\ threads[t].pc = "save"
    /\ \E saved \in SaveResults :
          IF saved = "ok"
          THEN /\ store' = [store EXCEPT !.disk = threads[t].local.webdav_sync]
               /\ skill_method' =
                     [skill_method EXCEPT !.disk = threads[t].local.skill_sync_method]
               /\ threads' = [threads EXCEPT ![t].pc = "replace"]
          ELSE IF saved = "torn"
          THEN /\ store' = [store EXCEPT !.disk = TornFile]
               /\ skill_method' = [skill_method EXCEPT !.disk = "torn"]
               /\ ThreadReturns(t, "Io")
          ELSE /\ ThreadReturns(t, "Io")
               /\ UNCHANGED <<store, skill_method>>
    /\ UNCHANGED <<pc, remote, db, ssot, bak, loc, outcome, log, pre, attempts, status,
                   arch, call, peer>>

\* update_settings: *guard = new_settings under the write lock; Ok(()).
UpdateSettingsReplace(t) ==
    /\ pc = "t_run"
    /\ threads[t].pc = "replace"
    /\ store' = [store EXCEPT !.mem = threads[t].local.webdav_sync]
    /\ skill_method' = [skill_method EXCEPT !.mem = threads[t].local.skill_sync_method]
    /\ ThreadReturns(t, "Ok")
    /\ UNCHANGED <<pc, remote, db, ssot, bak, loc, outcome, log, pre, attempts, status,
                   arch, call, peer>>

UpdateSettingsSaveWebdav == UpdateSettingsSave("webdav")
UpdateSettingsSaveSkill == UpdateSettingsSave("skill")
UpdateSettingsReplaceWebdav == UpdateSettingsReplace("webdav")
UpdateSettingsReplaceSkill == UpdateSettingsReplace("skill")

----------------------------------------------------------------------------
(* Specifications                                                          *)

InitLocal ==
    /\ pc = "idle"
    /\ db \in Texts
    /\ ssot \in LiveDirs
    /\ bak = NoDir
    /\ loc = NoLocals
    /\ outcome = NoOutcome
    /\ log = <<>>
    /\ pre = [db |-> db, ssot |-> ssot]
    /\ attempts = 0
    /\ status = NoStatus
    /\ arch = NoArchive
    /\ call = NoCall
    /\ peer = NoPeer
    /\ skill_method = NoMethod
    /\ threads = NoThreads

\* The remote directory is empty and only this program writes to it; sync
\* is configured.
Init ==
    /\ InitLocal
    /\ store = Configured
    /\ remote = EmptyRemote

Next ==
    \/ StartUpload
    \/ UploadEnsureDirs
    \/ UploadBuildSnapshot
    \/ UploadPutDb
    \/ UploadPutZip
    \/ UploadPutManifest
    \/ UploadHeadEtag
    \/ UploadPersist
    \/ StartDownload
    \/ DownloadGetManifest
    \/ DownloadGetDb
    \/ DownloadGetZip
    \/ DownloadPersist
    \/ ApplyUtf8
    \/ ApplyBackup
    \/ RestoreUnpack
    \/ RestorePrepare
    \/ RestoreRename
    \/ RestoreCopy
    \/ RestoreUndoRemove
    \/ RestoreUndoRename
    \/ RestoreCleanup
    \/ ApplyDbInit
    \/ ApplyImport
    \/ BackupRestoreRemove
    \/ BackupRestoreCopy
    \/ Crash
    \/ LocalEdit

Spec == Init /\ [][Next]_vars

\* The remote directory holds what another writer left there.
InitHostile ==
    /\ InitLocal
    /\ store = Configured
    /\ remote \in HostileRemotes

SpecHostile == InitHostile /\ [][Next]_vars

\* The program starts with whatever its settings file held; the connection
\* check is also called.
InitConfig ==
    /\ InitLocal
    /\ store \in ConfigStores
    /\ remote = EmptyRemote

NextConfig ==
    \/ Next
    \/ StartCheckConnection
    \/ CheckTestConnection
    \/ CheckEnsureDirs

SpecConfig == InitConfig /\ [][NextConfig]_vars

\* One step of a running attempt.
AttemptStep ==
    \/ UploadEnsureDirs
    \/ UploadBuildSnapshot
    \/ UploadPutDb
    \/ UploadPutZip
    \/ UploadPutManifest
    \/ UploadHeadEtag
    \/ UploadPersist
    \/ DownloadGetManifest
    \/ DownloadGetDb
    \/ DownloadGetZip
    \/ DownloadPersist
    \/ ApplyUtf8
    \/ ApplyBackup
    \/ RestoreUnpack
    \/ RestorePrepare
    \/ RestoreRename
    \/ RestoreCopy
    \/ RestoreUndoRemove
    \/ RestoreUndoRename
    \/ RestoreCleanup
    \/ ApplyDbInit
    \/ ApplyImport
    \/ BackupRestoreRemove
    \/ BackupRestoreCopy

\* The process does not stop, and every remote operation and every local
\* file operation of a running attempt returns: run_http drives the attempt
\* with block_on on the calling thread, so a step that can be taken is
\* taken.
NextLive ==
    \/ StartUpload
    \/ StartDownload
    \/ LocalEdit
    \/ AttemptStep

SpecLive == InitHostile /\ [][NextLive]_vars /\ WF_vars(AttemptStep)

\* Only this program writes to the remote directory and it does not stop
\* in the middle of an attempt; the skills tree it starts with may be a
\* large one.
InitRoundTrip ==
    /\ pc = "idle"
    /\ db \in Texts
    /\ ssot \in LiveDirs \cup {Dir(TreeWide)}
    /\ bak = NoDir
    /\ loc = NoLocals
    /\ outcome = NoOutcome
    /\ log = <<>>
    /\ pre = [db |-> db, ssot |-> ssot]
    /\ attempts = 0
    /\ status = NoStatus
    /\ arch = NoArchive
    /\ call = NoCall
    /\ peer = NoPeer
    /\ skill_method = NoMethod
    /\ threads = NoThreads
    /\ store = Configured
    /\ remote = EmptyRemote

SpecRoundTrip == InitRoundTrip /\ [][NextLive]_vars

\* Settings a thread may hand to set_webdav_sync_settings: None, settings
\* that fail validate(), and two settings that pass.
ThreadGiven ==
    {<<>>, <<[StoredBefore EXCEPT !.base_url = <<120>>]>>,
     <<[StoredBefore EXCEPT !.profile = <<112>>]>>,
     <<[StoredBefore EXCEPT !.enabled = FALSE, !.timeout_secs = 30]>>}
ThreadMethods == {"Symlink", "Copy"}
NoLocalSettings == [webdav_sync |-> <<>>, skill_sync_method |-> "Auto"]

\* The two calls are made at the same time, in threads of one process; no
\* attempt runs.
InitSettings ==
    /\ pc = "t_run"
    /\ store \in Stores
    /\ skill_method = NoMethod
    /\ threads \in {[t \in Threads |->
                        [pc |-> "start", local |-> NoLocalSettings, ret |-> "",
                         arg |-> IF t = "webdav" THEN g ELSE m]] :
                     g \in ThreadGiven, m \in ThreadMethods}
    /\ remote = EmptyRemote
    /\ db = <<97>>
    /\ ssot = NoDir
    /\ bak = NoDir
    /\ loc = NoLocals
    /\ outcome = NoOutcome
    /\ log = <<>>
    /\ pre = [db |-> db, ssot |-> ssot]
    /\ attempts = 0
    /\ status = NoStatus
    /\ arch = NoArchive
    /\ call = NoCall
    /\ peer = NoPeer

NextSettings ==
    \/ SetWebdavSyncSettingsGet
    \/ SetSkillSyncMethodGet
    \/ UpdateSettingsSaveWebdav
    \/ UpdateSettingsSaveSkill
    \/ UpdateSettingsReplaceWebdav
    \/ UpdateSettingsReplaceSkill

SpecSettings == InitSettings /\ [][NextSettings]_vars

\* This process and another one work on the same remote path, their
\* requests interleaved in every way; no crash and no local edit happen.
NextPeers ==
    \/ StartUpload
    \/ UploadEnsureDirs
    \/ UploadBuildSnapshot
    \/ UploadPutDb
    \/ UploadPutZip
    \/ UploadPutManifest
    \/ UploadHeadEtag
    \/ UploadPersist
    \/ StartDownload
    \/ DownloadGetManifest
    \/ DownloadGetDb
    \/ DownloadGetZip
    \/ DownloadPersist
    \/ ApplyUtf8
    \/ ApplyBackup
    \/ RestoreUnpack
    \/ RestorePrepare
    \/ RestoreRename
    \/ RestoreCopy
    \/ RestoreUndoRemove
    \/ RestoreUndoRename
    \/ RestoreCleanup
    \/ ApplyDbInit
    \/ ApplyImport
    \/ BackupRestoreRemove
    \/ BackupRestoreCopy
    \/ PeerStartUpload
    \/ PeerPutDb
    \/ PeerPutZip
    \/ PeerPutManifest

SpecPeers == Init /\ [][NextPeers]_vars

\* A pack of any directory of PackDirs followed by the unpack of what it
\* gave, or an unpack of any archive of UnpackArchives; no attempt runs.
InitArchive ==
    /\ \/ /\ pc = "x_pack"
          /\ arch \in {[NoArchive EXCEPT !.tree = d] : d \in PackDirs}
       \/ /\ pc = "x_unpack"
          /\ arch \in {[NoArchive EXCEPT !.zip = z] : z \in UnpackArchives}
    /\ remote = EmptyRemote
    /\ db = <<97>>
    /\ ssot = NoDir
    /\ bak = NoDir
    /\ loc = NoLocals
    /\ outcome = NoOutcome
    /\ log = <<>>
    /\ pre = [db |-> db, ssot |-> ssot]
    /\ attempts = 0
    /\ status = NoStatus
    /\ call = NoCall
    /\ store = NoStore
    /\ peer = NoPeer
    /\ skill_method = NoMethod
    /\ threads = NoThreads

NextArchive ==
    \/ ArchivePack
    \/ ArchiveRepack
    \/ ArchiveUnpack

SpecArchive == InitArchive /\ [][NextArchive]_vars

\* One call of a function with arguments from its set of inputs; no attempt
\* runs.
InitCall ==
    /\ pc = "f_call"
    /\ \/ /\ call \in {[NoCall EXCEPT !.f = "compute_snapshot_id", !.arg = i] :
                          i \in InsertSeqs}
                      \cup RemoteCalls
                      \cup BodyCalls
                      \cup EnsureCalls
                      \cup {[NoCall EXCEPT !.f = "normalize_device_name", !.arg = n] :
                                n \in RawNames}
          /\ store = NoStore
       \/ /\ call \in {[NoCall EXCEPT !.f = "set_webdav_sync_settings", !.arg = g] :
                          g \in GivenSettings}
          /\ store \in Stores
    /\ peer = NoPeer
    /\ skill_method = NoMethod
    /\ threads = NoThreads
    /\ arch = NoArchive
    /\ remote = EmptyRemote
    /\ db = <<97>>
    /\ ssot = NoDir
    /\ bak = NoDir
    /\ loc = NoLocals
    /\ outcome = NoOutcome
    /\ log = <<>>
    /\ pre = [db |-> db, ssot |-> ssot]
    /\ attempts = 0
    /\ status = NoStatus

NextCall ==
    \/ CallComputeSnapshotId
    \/ CallTestConnection
    \/ CallPutBytes
    \/ CallGetBytes
    \/ CallGetBytesBody
    \/ CallHeadEtag
    \/ CallEnsureRemoteDirectories
    \/ CallEnsureChain
    \/ CallDeleteCollection
    \/ CallSetWebdavSyncSettings
    \/ CallNormalizeDeviceName

SpecCall == InitCall /\ [][NextCall]_vars

----------------------------------------------------------------------------
(* Properties                                                              *)

\* The PUT requests of the running or last attempt, in the order issued.
PutLog == SelectSeq(log, LAMBDA r : r.m = "PUT")

UploadOrder == <<REMOTE_DB_SQL, REMOTE_SKILLS_ZIP, REMOTE_MANIFEST>>

\* C1: in every upload attempt the PUTs are issued in the order db.sql,
\* skills.zip, manifest.json, each object at most once; a PUT is issued only
\* after every earlier PUT of the attempt returned success, so the manifest
\* PUT follows two successful artifact PUTs, and after a failed artifact PUT
\* the attempt holds no manifest PUT.
C1_UploadPutOrder ==
    outcome.op = "upload" =>
        /\ Len(PutLog) <= 3
        /\ \A i \in 1..Len(PutLog) :
              /\ PutLog[i].o = UploadOrder[i]
              /\ \A j \in 1..(i - 1) : PutLog[j].ok
        /\ (\E i \in 1..Len(PutLog) :
               PutLog[i].o \in ArtifactNames /\ ~PutLog[i].ok)
           => \A i \in 1..Len(PutLog) : PutLog[i].o # REMOTE_MANIFEST

\* An upload that ended Done after its three PUTs.
C1_Witness ==
    /\ outcome = [op |-> "upload", res |-> "Done", err |-> ""]
    /\ Len(PutLog) = 3
    /\ PutLog[3].o = REMOTE_MANIFEST

\* The remote object an artifact name stands for.
RemoteObject(n) == IF n = REMOTE_DB_SQL THEN remote.db ELSE remote.zip

\* Every artifact the remote manifest names is stored with the size and the
\* hash the manifest records.
ManifestMatchesRemote ==
    \A n \in DOMAIN remote.manifest.m.artifacts :
        /\ RemoteObject(n).present
        /\ Len(RemoteObject(n).bytes) = remote.manifest.m.artifacts[n].size
        /\ sha256_hex(RemoteObject(n).bytes) = remote.manifest.m.artifacts[n].sha256

\* C2: on a remote only this program writes to, after an upload attempt that
\* ran to Done or was aborted by a failed PUT, a manifest that can be fetched
\* names artifacts that are stored with the sizes and hashes it records.
C2_ManifestIsCommitMarker ==
    (/\ pc = "idle"
     /\ outcome.op = "upload"
     /\ (outcome.res = "Done" \/ outcome.err = "put_bytes")
     /\ remote.manifest.present)
    => ManifestMatchesRemote

\* The steps of download() from apply_snapshot on.
ApplyPcs ==
    {"a_utf8", "a_backup", "r_unpack", "r_prepare", "r_rename", "r_copy",
     "r_undo_rm", "r_undo_mv", "r_cleanup", "a_dbinit", "a_import",
     "s_remove", "s_copy", "d_persist"}

\* Bytes b are what descriptor meta records.
Verified(b, meta) == Len(b) = meta.size /\ sha256_hex(b) = meta.sha256

\* The remote passes every check of download(): a decodable manifest of the
\* expected format and version that names both artifacts, each stored with
\* the recorded size and hash.
RemoteVerifies ==
    /\ remote.manifest.present
    /\ remote.manifest.m.json
    /\ remote.manifest.m.len <= MAX_MANIFEST_BYTES
    /\ remote.manifest.m.format = PROTOCOL_FORMAT
    /\ remote.manifest.m.version = PROTOCOL_VERSION
    /\ DOMAIN remote.manifest.m.artifacts = ArtifactNames
    /\ \A n \in ArtifactNames :
          /\ remote.manifest.m.artifacts[n].size <= MAX_SYNC_ARTIFACT_BYTES
          /\ RemoteObject(n).present
          /\ Verified(RemoteObject(n).bytes, remote.manifest.m.artifacts[n])

\* C3: a download attempt is in apply_snapshot (or past it) only with both
\* artifacts fetched and each matching the manifest's size and hash; when
\* the manifest or an artifact fails a check the attempt never reaches
\* apply_snapshot, does not end Done, and the local skills tree and database
\* are as they were when it began.
C3_VerifyAllThenApply ==
    outcome.op = "download" =>
        /\ pc \in ApplyPcs =>
              /\ loc.manifest = remote.manifest.m
              /\ DOMAIN loc.manifest.artifacts = ArtifactNames
              /\ loc.db_sql = remote.db.bytes
              /\ loc.skills_zip = remote.zip.bytes
              /\ Verified(loc.db_sql, loc.manifest.artifacts[REMOTE_DB_SQL])
              /\ Verified(loc.skills_zip, loc.manifest.artifacts[REMOTE_SKILLS_ZIP])
              /\ \A n \in ArtifactNames :
                    \E i \in 1..Len(log) : log[i] = Request("GET", n, TRUE)
        /\ ~RemoteVerifies =>
              /\ pc \notin ApplyPcs
              /\ outcome.res # "Done"
              /\ db = pre.db
              /\ ssot = pre.ssot
              /\ pc = "idle" => outcome.res \in {"Failed", "Crashed"}

\* A download whose db.sql passed and whose skills.zip failed the hash
\* check: the attempt ended Failed.
C3_Witness ==
    /\ outcome = [op |-> "download", res |-> "Failed", err |-> "artifact_hash_mismatch"]
    /\ Len(log) = 3
    /\ log[2] = Request("GET", REMOTE_DB_SQL, TRUE)
    /\ log[3] = Request("GET", REMOTE_SKILLS_ZIP, TRUE)
    /\ db = pre.db /\ ssot = pre.ssot

\* The local pair the remote snapshot stands for: the tree its archive
\* unpacks to and the text of its database export.
SnapshotTree == Dir(Unpack(remote.zip.bytes).t)
SnapshotDb == Utf8Decode(remote.db.bytes).text

LocalIsPre == ssot = pre.ssot /\ db = pre.db
LocalIsSnapshot == ssot = SnapshotTree /\ db = SnapshotDb

\* C4: when a download attempt has ended Done, or Failed with an error other
\* than the one that reports a failed rollback, the local pair (skills tree,
\* database) is the pair from before the attempt or the pair of the
\* downloaded snapshot.
C4_NeverHalfApplied ==
    (/\ pc = "idle"
     /\ outcome.op = "download"
     /\ outcome.res \in {"Done", "Failed"}
     /\ outcome.err # "db_import_and_rollback_failed")
    => (LocalIsPre \/ LocalIsSnapshot)

\* C5: when the import failed after the tree was replaced and the rollback
\* succeeded, so that apply_snapshot returned the import error itself, the
\* live skills tree is exactly the one from before the attempt (absent if
\* there was none) and the database is unchanged.
C5_RollbackRestoresTree ==
    (/\ pc = "idle"
     /\ outcome = [op |-> "download", res |-> "Failed", err |-> "db_import"])
    => (ssot = pre.ssot /\ db = pre.db)

\* The steps of restore_skills_zip that replace the live tree: the rename
\* to .bak, the copy into the live location, the removal of .bak.
ReplacePcs == {"r_rename", "r_copy", "r_cleanup"}

\* C6: when the process stopped during the replacement of the live tree in
\* restore_skills_zip, the live tree location holds the complete tree from
\* before the attempt or the complete tree of the snapshot.
C6_ReplacementCrashSafe ==
    (/\ pc = "idle"
     /\ outcome.op = "download"
     /\ outcome.res = "Crashed"
     /\ outcome.err \in ReplacePcs)
    => (ssot = pre.ssot \/ ssot = SnapshotTree)

\* The remote manifest can be fetched and decoded.
ManifestReadable ==
    /\ remote.manifest.present
    /\ remote.manifest.m.json
    /\ remote.manifest.m.len <= MAX_MANIFEST_BYTES

\* The remote manifest has another format or another version.
ManifestIncompatible ==
    \/ remote.manifest.m.format # PROTOCOL_FORMAT
    \/ remote.manifest.m.version # PROTOCOL_VERSION

\* C7: a download that finds a readable manifest whose format is not
\* PROTOCOL_FORMAT or whose version is not PROTOCOL_VERSION issues no GET
\* for an artifact, never leaves the manifest step, leaves the local tree
\* and database unchanged and, once the manifest has been fetched, has ended
\* Failed with the format or version error, whatever the manifest's
\* artifact entries are.
C7_IncompatibleManifestRejected ==
    (outcome.op = "download" /\ ManifestReadable /\ ManifestIncompatible) =>
        /\ pc \in {"d_get_manifest", "idle"}
        /\ \A i \in 1..Len(log) : log[i].o \notin ArtifactNames
        /\ db = pre.db /\ ssot = pre.ssot
        /\ (\E i \in 1..Len(log) : log[i] = Request("GET", REMOTE_MANIFEST, TRUE))
           => /\ pc = "idle"
              /\ outcome.res = "Failed"
              /\ outcome.err =
                    IF remote.manifest.m.format # PROTOCOL_FORMAT
                    THEN "manifest_format_incompatible"
                    ELSE "manifest_version_incompatible"

\* A download that fetched a manifest of another version whose artifact
\* entries describe the stored objects correctly, and ended Failed.
C7_Witness ==
    /\ outcome = [op |-> "download", res |-> "Failed",
                  err |-> "manifest_version_incompatible"]
    /\ log = <<Request("GET", REMOTE_MANIFEST, TRUE)>>
    /\ remote.manifest.m.format = PROTOCOL_FORMAT
    /\ DOMAIN remote.manifest.m.artifacts = ArtifactNames
    /\ ManifestMatchesRemote

\* The GET of download_and_verify for artifact n yielded the stored bytes.
Fetched(n) == \E i \in 1..Len(log) : log[i] = Request("GET", n, TRUE)

\* download_and_verify for artifact n returned Err(err) after its GET.
RejectedWith(n, err) ==
    /\ pc = "idle"
    /\ log # <<>> /\ log[Len(log)] = Request("GET", n, TRUE)
    /\ outcome.res = "Failed" /\ outcome.err = err

\* download_and_verify for artifact n returned Ok(bytes).
Returned(n) ==
    /\ Fetched(n)
    /\ ~RejectedWith(n, "artifact_size_mismatch")
    /\ ~RejectedWith(n, "artifact_hash_mismatch")

\* C8: download_and_verify returns the fetched bytes only when their length
\* is the descriptor's size and their hash is the descriptor's sha256; bytes
\* of the declared size with another hash are rejected with the hash error,
\* bytes with the declared hash and another length with the size error.
C8_VerifySizeAndHash ==
    outcome.op = "download" =>
        \A n \in ArtifactNames :
            Fetched(n) =>
                LET b == RemoteObject(n).bytes
                    meta == remote.manifest.m.artifacts[n]
                IN  /\ Returned(n) => Len(b) = meta.size /\ sha256_hex(b) = meta.sha256
                    /\ (Len(b) = meta.size /\ sha256_hex(b) # meta.sha256)
                       => RejectedWith(n, "artifact_hash_mismatch")
                    /\ (sha256_hex(b) = meta.sha256 /\ Len(b) # meta.size)
                       => RejectedWith(n, "artifact_size_mismatch")

\* db.sql was fetched, its hash is the declared one and its length is not
\* the declared size: rejected.
C8_Witness ==
    /\ outcome.op = "download"
    /\ RejectedWith(REMOTE_DB_SQL, "artifact_size_mismatch")
    /\ sha256_hex(remote.db.bytes) = remote.manifest.m.artifacts[REMOTE_DB_SQL].sha256
    /\ Len(remote.db.bytes) # remote.manifest.m.artifacts[REMOTE_DB_SQL].size

\* C9: after a download attempt has ended Done the local database is the
\* text of the fetched db.sql and the live skills tree is exactly what the
\* fetched skills.zip unpacks to: nothing of the previous live tree that is
\* not in the archive remains.
C9_DownloadAppliesSnapshot ==
    (pc = "idle" /\ outcome = [op |-> "download", res |-> "Done", err |-> ""])
    => /\ db = SnapshotDb
       /\ ssot = SnapshotTree

\* A download ended Done over a previous live tree that held a path the
\* archive does not hold, and over another database.
C9_Witness ==
    /\ pc = "idle"
    /\ outcome = [op |-> "download", res |-> "Done", err |-> ""]
    /\ pre.ssot.exists
    /\ DOMAIN pre.ssot.t \ DOMAIN SnapshotTree.t # {}
    /\ pre.db # db

\* The bytes build_local_snapshot exports and packs from the local state.
ExportedBytes == Utf8Encode(db)
PackedBytes == ZipEncode(zip_skills_ssot(ssot, SortNames(AllNames), 0).es)

\* C10: after an upload attempt has ended Done the remote holds db.sql with
\* the exported bytes, skills.zip with the packed bytes, and a manifest of
\* format PROTOCOL_FORMAT and version PROTOCOL_VERSION whose artifacts are
\* exactly db.sql and skills.zip, each with the hash and the length of the
\* bytes stored under that name.
C10_UploadStoresSnapshot ==
    (pc = "idle" /\ outcome = [op |-> "upload", res |-> "Done", err |-> ""])
    => /\ remote.db = Object(ExportedBytes)
       /\ remote.zip = Object(PackedBytes)
       /\ remote.manifest.present
       /\ remote.manifest.m.json
       /\ remote.manifest.m.format = PROTOCOL_FORMAT
       /\ remote.manifest.m.version = PROTOCOL_VERSION
       /\ DOMAIN remote.manifest.m.artifacts = ArtifactNames
       /\ remote.manifest.m.artifacts[REMOTE_DB_SQL] =
             [sha256 |-> sha256_hex(ExportedBytes), size |-> Len(ExportedBytes)]
       /\ remote.manifest.m.artifacts[REMOTE_SKILLS_ZIP] =
             [sha256 |-> sha256_hex(PackedBytes), size |-> Len(PackedBytes)]

\* An upload of a database whose text is not ASCII and of a skills tree
\* with a sub-directory ended Done.
C10_Witness ==
    /\ pc = "idle"
    /\ outcome = [op |-> "upload", res |-> "Done", err |-> ""]
    /\ Len(remote.db.bytes) > Len(db)
    /\ ssot = Dir(TreeNested)
    /\ Len(remote.zip.bytes) > Len(ZipMagic)

----------------------------------------------------------------------------
(* Best-effort tail of an attempt                                          *)

\* The steps after the manifest PUT of upload succeeded, or after
\* apply_snapshot of download returned Ok.
PostCommitPcs == {"u_head", "u_persist", "d_persist"}

HeadFailed == \E i \in 1..Len(log) : log[i].m = "HEAD" /\ ~log[i].ok

\* C11: once the manifest PUT of an upload or apply_snapshot of a download
\* has succeeded, no step turns the attempt into Failed, and the step that
\* ends it (the process surviving) ends it Done, whatever the HEAD request
\* and the status persistence gave.
C11_BestEffortTail ==
    [][(pc \in PostCommitPcs) =>
          (/\ outcome'.res # "Failed"
           /\ pc' = "idle" => outcome'.res \in {"Done", "Crashed"}
           /\ pc' # "idle" => pc' \in PostCommitPcs /\ outcome' = outcome)]_vars

\* An upload ended Done although its HEAD request failed and its status was
\* not stored.
C11_Witness ==
    /\ outcome.op = "upload"
    /\ outcome.res = "Done"
    /\ HeadFailed
    /\ status.last_sync_at # attempts

----------------------------------------------------------------------------
(* Unpack: entries that leave the extraction directory                     *)

\* The entries of the archive that was unpacked on its own.
ArchEntries == ZipParse(arch.zip).es

\* The entry name, joined to the extraction directory, resolves to a path
\* that is not below it.
Escapes(name) == ~InExtractRoot(OutPath(name, Len(Components(name))))

HasEscape == \E i \in 1..Len(ArchEntries) : Escapes(ArchEntries[i].name)

\* C12: an entry whose name resolves outside the extraction directory is
\* skipped without error: in an archive that passes the entry-count check,
\* nothing is touched outside the directory, and the unpack gives exactly
\* what the same entries without the escaping ones give (the others are
\* extracted, and the result is Ok when theirs is).
C12_EscapingEntrySkipped ==
    (pc = "x_done" /\ ZipParse(arch.zip).ok /\ Len(ArchEntries) <= MAX_ZIP_ENTRIES) =>
        /\ arch.out.outside = {}
        /\ arch.out =
              ExtractEntries(SelectSeq(ArchEntries, LAMBDA e : ~Escapes(e.name)),
                             1, EmptyTree, 0, {})

\* An unpack returned Ok for an archive with an escaping entry and extracted
\* its other entry.
C12_Witness ==
    /\ pc = "x_done"
    /\ HasEscape
    /\ arch.out.ok
    /\ arch.out.t # EmptyTree

----------------------------------------------------------------------------
(* Unpack: the extraction ceiling                                          *)

\* The bytes held by the files of tree t.
RECURSIVE BytesOfPaths(_, _)
BytesOfPaths(t, P) ==
    IF P = {} THEN 0
    ELSE LET q == CHOOSE q \in P : TRUE
         IN  Len(t[q].c) + BytesOfPaths(t, P \ {q})
TreeBytes(t) == BytesOfPaths(t, DOMAIN t)

\* The bytes of the file entries of es that the loop does not skip.
RECURSIVE EntryBytes(_)
EntryBytes(es) ==
    IF es = <<>> THEN 0
    ELSE (IF enclosed_name(Head(es).name) /\ ~entry_is_dir(Head(es).name)
          THEN Len(Head(es).data) ELSE 0) + EntryBytes(Tail(es))

\* C13: in one unpack the running total never exceeds
\* MAX_ZIP_EXTRACT_BYTES and the scratch directory never holds more bytes
\* than the total; an unpack that returns Ok has written every byte of its
\* entries, one whose entries hold more than the ceiling fails, and an
\* archive of one file fails exactly when the file is longer than the
\* ceiling (a file of exactly the ceiling is accepted).
C13_TotalWithinCeiling ==
    (pc = "x_done" /\ ZipParse(arch.zip).ok) =>
        /\ arch.out.total <= MAX_ZIP_EXTRACT_BYTES
        /\ TreeBytes(arch.out.t) <= arch.out.total
        /\ arch.out.ok => arch.out.total = EntryBytes(ArchEntries)
        /\ EntryBytes(ArchEntries) > MAX_ZIP_EXTRACT_BYTES => ~arch.out.ok
        /\ (Len(ArchEntries) = 1 /\ ArchEntries[1].name = NameA) =>
              (arch.out.ok <=> Len(ArchEntries[1].data) <= MAX_ZIP_EXTRACT_BYTES)

\* An unpack of two files stopped at the ceiling: the chunks written add up
\* to exactly the ceiling and the chunk after them was refused.
C13_Witness ==
    /\ pc = "x_done"
    /\ Len(ArchEntries) = 2
    /\ ~arch.out.ok
    /\ EntryBytes(ArchEntries) > MAX_ZIP_EXTRACT_BYTES
    /\ arch.out.total = MAX_ZIP_EXTRACT_BYTES
    /\ TreeBytes(arch.out.t) = MAX_ZIP_EXTRACT_BYTES

----------------------------------------------------------------------------
(* Pack: the visited set                                                   *)

\* A pack on its own has run on an existing directory.
Packed == pc \in {"x_repack", "x_unpack", "x_done"} /\ arch.tree.exists

\* The directories of tree t; their paths are canonical.
CanonicalDirs(t) == {p \in DOMAIN t : t[p].k = "d"}

DirEntryNames(es) == {es[i].name : i \in {j \in 1..Len(es) : entry_is_dir(es[j].name)}}

NoRepeatedName(es) == \A i, j \in 1..Len(es) : es[i].name = es[j].name => i = j

\* The names add_directory is given for a set of canonical directories.
DirNamesOf(P) == {Append(JoinPath(p), Slash) : p \in P}

\* Every link of t leads, in the end, to a directory of t.
LinksToDirs(t) ==
    \A p \in DOMAIN t :
        t[p].k = "l" =>
            /\ canonicalize(t, p).ok
            /\ ~canonicalize(t, p).out
            /\ is_dir(t, canonicalize(t, p).path)

\* t has a link to one of the link's own ancestors.
LinkToAncestor(t) ==
    \E p \in DOMAIN t : t[p].k = "l" /\ t[p].tgt # p /\ IsPrefix(t[p].tgt, p)

\* C14: packing a tree returns, also when links lead back to an ancestor:
\* the visited set holds the root and canonical directories of the tree
\* only, every directory entry written is the entry of a visited directory,
\* no entry name is written twice, a pack that returns Ok has written
\* exactly one directory entry per visited directory below the root, and a
\* tree whose links all lead to directories of the tree packs Ok.
C14_PackVisitsOnce ==
    Packed =>
        LET r == arch.pack
            t == arch.tree.t
            below == r.vis \ {<<>>}
        IN  /\ <<>> \in r.vis
            /\ below \subseteq CanonicalDirs(t)
            /\ DirEntryNames(r.es) \subseteq DirNamesOf(below)
            /\ NoRepeatedName(r.es)
            /\ r.ok => /\ DirEntryNames(r.es) = DirNamesOf(below)
                       /\ Cardinality(DirEntryNames(r.es)) = Cardinality(below)
            /\ LinksToDirs(t) => r.ok

\* A tree with a link back to an ancestor was packed: Ok, with the
\* directory that holds the link entered once.
C14_Witness ==
    /\ Packed
    /\ LinkToAncestor(arch.tree.t)
    /\ arch.pack.ok
    /\ Cardinality(arch.pack.vis) = 2
    /\ Len(arch.pack.es) >= 2

----------------------------------------------------------------------------
(* Pack: determinism                                                       *)

\* The same directory has been packed twice on its own.
PackedTwice == Len(arch.runs) = 2

\* C15: two packs of the same directory give the same result and the same
\* entries (names, order, content, time stamp), hence the same bytes,
\* whatever the order in which the file system listed the directories and
\* whatever the time at which each pack ran.
C15_PackDeterministic ==
    PackedTwice =>
        /\ arch.again.ok = arch.pack.ok
        /\ arch.again.es = arch.pack.es
        /\ ZipEncode(arch.again.es) = ZipEncode(arch.pack.es)

\* A directory of several entries was packed at two different times with
\* its listings in two different orders.
C15_Witness ==
    /\ PackedTwice
    /\ arch.runs[1].ord # arch.runs[2].ord
    /\ arch.runs[1].now # arch.runs[2].now
    /\ arch.pack.ok
    /\ Len(arch.pack.es) >= 3

----------------------------------------------------------------------------
(* Pack then unpack                                                        *)

\* Tree t has no symbolic link and no name that starts with a dot.
NoLinksNoHidden(t) ==
    \A p \in DOMAIN t : t[p].k # "l" /\ \A i \in 1..Len(p) : Head(p[i]) # Dot

\* A pack on its own and the unpack of its bytes have both run.
RoundTripDone ==
    pc = "x_done" /\ arch.tree.exists /\ Len(arch.runs) = 2

\* The tree stays within what restore_skills_zip accepts: at most
\* MAX_ZIP_ENTRIES files and directories, at most MAX_ZIP_EXTRACT_BYTES
\* bytes in its files.
WithinCeilings(t) ==
    /\ Cardinality(DOMAIN t) <= MAX_ZIP_ENTRIES
    /\ TreeBytes(t) <= MAX_ZIP_EXTRACT_BYTES

\* C16: for every tree without links and hidden entries, unpacking what
\* pack gave yields the same relative paths (files and directories, empty
\* ones included) with the same file contents.
C16_PackUnpackRoundTrip ==
    (RoundTripDone /\ NoLinksNoHidden(arch.tree.t)) =>
        /\ arch.pack.ok
        /\ arch.out.ok
        /\ arch.out.t = arch.tree.t

\* The round trip of the trees that stay within the ceilings of unpack.
RoundTripWithinCeilings ==
    (RoundTripDone /\ NoLinksNoHidden(arch.tree.t) /\ WithinCeilings(arch.tree.t)) =>
        /\ arch.pack.ok
        /\ arch.out.ok
        /\ arch.out.t = arch.tree.t

\* A tree with an empty directory and a file in a directory came back as it
\* was.
RoundTripReached ==
    /\ RoundTripDone
    /\ NoLinksNoHidden(arch.tree.t)
    /\ Cardinality(DOMAIN arch.tree.t) = MAX_ZIP_ENTRIES
    /\ <<NameD, NameB>> \in DOMAIN arch.tree.t
    /\ arch.out.ok
    /\ arch.out.t = arch.tree.t

----------------------------------------------------------------------------
(* compute_snapshot_id                                                     *)

\* The (name, hash) pairs of an artifacts map.
NameHashPairs(map) == {<<map[i].name, map[i].meta.sha256>> : i \in 1..Len(map)}

SnapshotIdReturned == pc = "f_done" /\ call.f = "compute_snapshot_id"

\* C17: the id returned for a map is the id of every computation over
\* that map, and of every map with the same (name, hash) pairs, in whatever
\* order and with whatever sizes its entries were inserted; replacing the
\* hash of one entry by another hash gives another id.
C17_SnapshotIdOfNameHashPairs ==
    SnapshotIdReturned =>
        LET map == BTreeMapOf(call.arg)
        IN  /\ call.ret = compute_snapshot_id(map)
            /\ \A other \in InsertSeqs :
                  NameHashPairs(BTreeMapOf(other)) = NameHashPairs(map)
                      => compute_snapshot_id(BTreeMapOf(other)) = call.ret
            /\ \A i \in 1..Len(map), m \in Metas :
                  m.sha256 # map[i].meta.sha256
                      => compute_snapshot_id(btree_insert(map, map[i].name, m))
                         # call.ret

\* The id of a map into which skills.zip was inserted before db.sql.
C17_Witness ==
    /\ SnapshotIdReturned
    /\ Len(call.arg) = 2
    /\ call.arg[1].name = REMOTE_SKILLS_ZIP
    /\ call.arg[2].name = REMOTE_DB_SQL
    /\ Len(BTreeMapOf(call.arg)) = 2
    /\ call.ret # <<>>

----------------------------------------------------------------------------
(* The order of the steps of an attempt                                    *)

\* The steps of upload and of download in the order of the code.
StepOrder ==
    <<"u_ensure", "u_build", "u_put_db", "u_put_zip", "u_put_manifest", "u_head",
      "u_persist",
      "d_get_manifest", "d_get_db", "d_get_zip", "a_utf8", "a_backup", "r_unpack",
      "r_prepare", "r_rename", "r_copy", "r_undo_rm", "r_undo_mv", "r_cleanup",
      "a_dbinit", "a_import", "s_remove", "s_copy", "d_persist">>

Rank(step) == CHOOSE i \in 1..Len(StepOrder) : StepOrder[i] = step

\* The steps that copy a directory write by write.
CopyPcs == {"r_copy", "s_copy"}

\* The steps that run after a step of apply_snapshot has failed: the undo of
\* restore_skills_zip and SkillsBackup::restore.
RollbackPcs == {"r_undo_rm", "r_undo_mv", "s_remove", "s_copy"}

\* A running attempt goes to a later step, or goes on copying.
StepsInOrder ==
    (Running /\ pc' # "idle") =>
        \/ Rank(pc) < Rank(pc')
        \/ pc' = pc /\ pc \in CopyPcs /\ loc'.evi > loc.evi

\* A request is sent once, after requests that succeeded (or a HEAD), and a
\* failed request other than the HEAD ends the attempt Failed at once.
RequestsOnceAndFailFast ==
    (log' # log /\ log' # <<>>) =>
        /\ Len(log') = Len(log) + 1
        /\ SubSeq(log', 1, Len(log)) = log
        /\ \A i \in 1..Len(log) :
              /\ log[i].ok \/ log[i].m = "HEAD"
              /\ <<log[i].m, log[i].o>> # <<log'[Len(log')].m, log'[Len(log')].o>>
        /\ (~log'[Len(log')].ok /\ log'[Len(log')].m # "HEAD")
              => pc' = "idle" /\ outcome'.res = "Failed"

\* After an attempt has ended, nothing of it goes on: the remote directory,
\* the backup sibling and the status stay, and the local state changes only
\* by the application's own edits.
NothingAfterEnd ==
    (pc = "idle" /\ outcome.res \in {"Done", "Failed"}) =>
        /\ remote' = remote /\ bak' = bak /\ status' = status
        /\ pc' # "idle" => attempts' = attempts + 1 /\ outcome'.res = "running"
        /\ <<db', ssot'>> # <<db, ssot>> => outcome' = NoOutcome

\* After a failure no step changes the local state.
NoMutationAfterFailure ==
    pc \in RollbackPcs => <<db', ssot', bak'>> = <<db, ssot, bak>>

\* After a failure only the rollback of the skills directory runs: it sends no
\* request, leaves the remote directory, the database and the status alone,
\* and the attempt ends Failed.
OnlyRollbackAfterFailure ==
    pc \in RollbackPcs =>
        /\ log' = log /\ remote' = remote /\ db' = db /\ status' = status
        /\ \/ pc' \in RollbackPcs /\ outcome' = outcome
           \/ pc' = "idle" /\ outcome'.res \in {"Failed", "Crashed"}

RemoteOps ==
    {"test_connection", "put_bytes", "get_bytes", "head_etag",
     "ensure_remote_directories", "delete_collection"}

\* A remote-store operation has returned an error.
RemoteError == pc = "f_done" /\ call.f \in RemoteOps /\ call.ret # NoError

\* The passwords the call was given: that of the userinfo of its URL and
\* that of its credential pair.
PasswordsOf(arg) ==
    {UrlParse(arg.url).password, arg.auth.password} \ {<<>>}

LeaksPassword == \E secret \in PasswordsOf(call.arg) : Contains(call.ret, secret)

\* C19: the error a remote-store operation returns contains neither the
\* password of the userinfo of the URL it was called with nor the password of
\* the credential pair.
C19_NoPasswordInErrors == RemoteError => ~LeaksPassword

\* Every operation but delete_collection answered with a status keeps the
\* passwords out of its error.
RedactedButDeleteStatus ==
    (RemoteError /\ LeaksPassword)
        => (call.f = "delete_collection" /\ call.arg.responses[1] # SendError)

\* An error of put_bytes on a URL with a password shows "***" in its place.
RedactedReached ==
    /\ RemoteError
    /\ call.f = "put_bytes"
    /\ UrlParse(call.arg.url).password = UrlPassword
    /\ Contains(call.ret, <<58, 42, 42, 42, 64>>)

\* set_webdav_sync_settings is about to run on given settings, and has run.
SettingsGiven == pc = "f_call" /\ call.f = "set_webdav_sync_settings" /\ call.arg # <<>>
SettingsSet == pc = "f_done" /\ call.f = "set_webdav_sync_settings"

\* The scheme of a text: what stands before its first ':', in lower case.
SchemeOf(text) == Lower(SubSeq(text, 1, IndexOf(text, 58) - 1))

\* The settings the sentence rejects, read on the normalized fields: a
\* base_url that is not http/https, or enabled settings with an empty
\* base_url, an empty remote_root or profile, or a ".." in either; disabled
\* settings with an empty base_url are the ones it accepts.
DisabledEmpty(cfg) == ~cfg.enabled /\ cfg.base_url = <<>>
MustReject(cfg) ==
    /\ ~DisabledEmpty(cfg)
    /\ \/ SchemeOf(cfg.base_url) \notin {SchemeHttp, SchemeHttps}
       \/ /\ cfg.enabled
          /\ \/ cfg.base_url = <<>>
             \/ cfg.remote_root = <<>> \/ cfg.profile = <<>>
             \/ Contains(cfg.remote_root, DotDot) \/ Contains(cfg.profile, DotDot)

InvalidInputs == {"EmptyBaseUrl", "NotAUrl", "NotHttp", "EmptySegment", "DotDot"}

\* C20: a call of set_webdav_sync_settings on settings that, once
\* normalized, the sentence rejects returns an InvalidInput error and leaves
\* the settings in memory, the settings file and the status as they were; on
\* disabled settings with an empty base_url it returns no InvalidInput, and
\* when the file is written it returns Ok with the normalized settings in
\* memory and in the file; whenever anything is stored, it is the normalized
\* settings and they pass validate.
C20_ValidatedBeforeStored ==
    [][SettingsGiven =>
        \A now \in PackTimes :
            LET cfg == normalize(call.arg[1], now)
            IN  /\ MustReject(cfg) =>
                    /\ call'.ret \in InvalidInputs
                    /\ store' = store
                    /\ status' = status
                /\ DisabledEmpty(cfg) =>
                    /\ call'.ret \in {"Ok", "Io"}
                    /\ call'.ret = "Ok" => \E at \in PackTimes :
                           store' = [mem |-> <<normalize(call.arg[1], at)>>,
                                     disk |-> <<normalize(call.arg[1], at)>>]
                /\ store' # store =>
                    /\ validate(cfg) = "Ok"
                    /\ \/ store'.disk = TornFile /\ store'.mem = store.mem
                       \/ \E at \in PackTimes :
                              /\ store'.mem = <<normalize(call.arg[1], at)>>
                              /\ store'.disk = store'.mem]_vars

\* An ftp base_url was given while settings were stored: the call returned
\* the error and the stored settings are still there.
C20_Witness ==
    /\ SettingsSet
    /\ call.arg # <<>>
    /\ SchemeOf(Trim(call.arg[1].base_url)) = SchemeFtp
    /\ call.ret = "NotHttp"
    /\ store = [mem |-> <<StoredBefore>>, disk |-> <<StoredBefore>>]

\* Disabled settings with a base_url of one space were given and stored.
DisabledEmptyStored ==
    /\ SettingsSet
    /\ call.arg # <<>>
    /\ ~call.arg[1].enabled
    /\ call.arg[1].base_url = <<32>>
    /\ call.ret = "Ok"
    /\ store.mem # <<>> /\ store.mem[1].base_url = <<>> /\ store.disk = store.mem

----------------------------------------------------------------------------
(* C21: the normalized device name                                         *)

NameReturned == pc = "f_done" /\ call.f = "normalize_device_name"

\* The text has a character that is neither whitespace nor control.
HasVisible(text) ==
    \E i \in 1..Len(text) : ~is_whitespace(text[i]) /\ ~is_control(text[i])

\* At most MAX_DEVICE_NAME_LEN characters, none of them control, whitespace
\* only as single spaces.
WithinLimitAndCollapsed(name) ==
    /\ Len(name) \in 1..MAX_DEVICE_NAME_LEN
    /\ \A i \in 1..Len(name) :
          /\ ~is_control(name[i])
          /\ is_whitespace(name[i]) => name[i] = 32
          /\ (i > 1 /\ is_whitespace(name[i])) => ~is_whitespace(name[i - 1])

NoOuterWhitespace(name) ==
    name # <<>> /\ ~is_whitespace(name[1]) /\ ~is_whitespace(name[Len(name)])

\* C21: normalize_device_name returns None for a text without a visible
\* character; for every other text it returns a name of at most
\* MAX_DEVICE_NAME_LEN characters without control characters, with every run
\* of whitespace collapsed to one space, and without whitespace at its
\* beginning or its end.
C21_DeviceNameNormalized ==
    NameReturned =>
        IF ~HasVisible(call.arg) THEN call.ret = NoName
        ELSE /\ call.ret.some
             /\ WithinLimitAndCollapsed(call.ret.name)
             /\ NoOuterWhitespace(call.ret.name)

\* All of it but the whitespace at the end holds; the limit counts
\* characters: a name of MAX_DEVICE_NAME_LEN two-byte characters is kept
\* whole.
DeviceNameButTrailing ==
    NameReturned =>
        IF ~HasVisible(call.arg) THEN call.ret = NoName
        ELSE /\ call.ret.some
             /\ WithinLimitAndCollapsed(call.ret.name)
             /\ ~is_whitespace(call.ret.name[1])
             /\ (Len(call.arg) >= MAX_DEVICE_NAME_LEN /\ \A i \in 1..Len(call.arg) :
                    call.arg[i] = 233)
                    => Len(Utf8Encode(call.ret.name)) = 2 * MAX_DEVICE_NAME_LEN

\* A name was cut in the middle of "aa a".
TruncatedReached ==
    /\ NameReturned
    /\ call.arg = <<97, 97, 32, 97>>
    /\ call.ret = SomeName(<<97, 97, 32>>)

----------------------------------------------------------------------------
(* C22: a download interleaved with the uploads of another process         *)

FetchPcs == {"d_get_manifest", "d_get_db", "d_get_zip"}

\* The errors download() returns before apply_snapshot is called.
FetchErrors ==
    {"transport", "response_too_large", "remote_empty", "manifest_json",
     "manifest_format_incompatible", "manifest_version_incompatible",
     "manifest_missing_artifact", "artifact_too_large", "remote_missing_artifact",
     "artifact_size_mismatch", "artifact_hash_mismatch"}

\* The pair the attempt holds is the pair its manifest names.
HoldsPairOfManifest ==
    loc.manifest.artifacts = ArtifactsOf(loc.db_sql, loc.skills_zip)

\* C22: however the requests of a download are interleaved with the PUTs of
\* another process's uploads, the download touches the local state only in
\* apply_snapshot, which it enters holding a db.sql and a skills.zip whose
\* sizes and hashes are the ones its one manifest names; a download that
\* ends Failed before apply_snapshot leaves the local state as it was, and a
\* download about to end Done has applied exactly that pair.
C22_AppliesOneSnapshot ==
    outcome.op = "download" =>
        /\ pc \in FetchPcs => LocalIsPre
        /\ pc \in ApplyPcs => HoldsPairOfManifest
        /\ (pc = "idle" /\ outcome.res = "Failed" /\ outcome.err \in FetchErrors)
              => LocalIsPre
        /\ pc = "d_persist" =>
              /\ db = Utf8Decode(loc.db_sql).text
              /\ ssot = Dir(Unpack(loc.skills_zip).t)

\* The download fetched the manifest of the other process's first upload
\* and then the db.sql of its second: it ended Failed on the hash.
C22_Witness ==
    /\ outcome = [op |-> "download", res |-> "Failed", err |-> "artifact_hash_mismatch"]
    /\ Len(log) = 2
    /\ peer.n = 2
    /\ remote.db.bytes = PeerSnapshot(2).db_sql
    /\ LocalIsPre

\* A download applied the first snapshot of the other process while the
\* second upload was under way.
MixedRemoteApplied ==
    /\ outcome.op = "download"
    /\ pc = "d_persist"
    /\ peer.n = 2
    /\ loc.manifest = PeerSnapshot(1).manifest
    /\ remote.db.bytes = PeerSnapshot(2).db_sql

----------------------------------------------------------------------------
(* C23: two uploads on the same remote path                                *)

\* This process's first attempt, an upload, and the first upload of the
\* other process have both ended Done, and nothing else was started.
BothUploadsDone ==
    /\ pc = "idle" /\ attempts = 1
    /\ outcome = [op |-> "upload", res |-> "Done", err |-> ""]
    /\ peer.pc = "idle" /\ peer.n = 1 /\ peer.res = "Done"

\* An upload sends no GET, and its only HEAD comes after its last PUT.
WritesWithoutReading ==
    outcome.op = "upload" =>
        \A i \in 1..Len(log) :
            /\ log[i].m # "GET"
            /\ log[i].m = "HEAD" => Len(PutLog) = 3 /\ i = Len(log)

\* C23: an upload reads nothing of the remote snapshot before it writes, and
\* when two uploads on the same remote path have both ended Done, however
\* their PUTs were interleaved, the remote manifest is the manifest of one of
\* them and the remote db.sql and skills.zip are the ones it records.
C23_LastWriterWinsWhole ==
    /\ WritesWithoutReading
    /\ BothUploadsDone =>
          /\ remote.manifest.present
          /\ ManifestMatchesRemote

\* Both uploads ended Done and the remote manifest is the other process's
\* while the remote skills.zip is this process's.
MixedUploadsReached ==
    /\ BothUploadsDone
    /\ remote.manifest.m = peer.manifest
    /\ remote.zip.bytes # peer.skills_zip

----------------------------------------------------------------------------
(* C24: a failed copy inside restore_skills_zip                            *)

\* restore_skills_zip returned the error of copy_dir_recursive.
CopyFailed ==
    pc = "idle" /\ outcome = [op |-> "download", res |-> "Failed", err |-> "copy_dir_recursive"]

\* C24: when restore_skills_zip has returned the error of the copy into the
\* live location, the live tree is exactly the tree from before the call:
\* the previous tree if there was one, absent if there was none.
C24_FailedCopyRestoresLive == CopyFailed => ssot = pre.ssot

\* No tree existed before the call and the failed copy left a tree behind.
LeftoverReached == CopyFailed /\ ~pre.ssot.exists /\ ssot.exists

\* No tree existed before the call, so the .bak about to be moved into the
\* live location is one left over from an earlier run.
StaleBakMovedIn == pc = "r_undo_mv" /\ ~pre.ssot.exists /\ bak.exists

----------------------------------------------------------------------------
(* C25: a failed unpack inside restore_skills_zip                          *)

\* restore_skills_zip returned an error from lines 213-269.
UnpackFailed ==
    pc = "idle" /\ outcome = [op |-> "download", res |-> "Failed", err |-> "restore_skills_zip"]

\* C25: the step in which restore_skills_zip fails while parsing the
\* archive, on the entry-count check or while extracting an entry touches
\* no path outside the scratch directory and leaves the live skills tree,
\* its .bak sibling and the database as they were before the call.
C25_FailedUnpackLeavesLive ==
    [][(pc = "r_unpack" /\ UnpackFailed')
          => /\ Unpack(loc.skills_zip).outside = {}
             /\ ssot' = ssot /\ ssot' = pre.ssot
             /\ bak' = bak
             /\ db' = pre.db]_vars

\* The unpack of an archive over the extraction ceiling failed, after it
\* had written the bytes under the ceiling to the scratch directory, while a
\* live tree existed: the live tree is the one from before.
C25_Witness ==
    /\ UnpackFailed
    /\ remote.zip.bytes = ArchiveTooBig
    /\ Unpack(ArchiveTooBig).t # EmptyTree
    /\ pre.ssot.exists
    /\ ssot = pre.ssot

\* The same for bytes that are no archive and for an archive with more than
\* MAX_ZIP_ENTRIES entries.
ParseFailureReached == UnpackFailed /\ remote.zip.bytes = ArchiveGarbage /\ ssot.exists
TooManyEntriesReached == UnpackFailed /\ remote.zip.bytes = ArchiveTooMany /\ ssot.exists

----------------------------------------------------------------------------
(* C26: state bytes that are not UTF-8                                     *)

\* apply_snapshot returned the error of std::str::from_utf8.
NotUtf8Failed ==
    pc = "idle" /\ outcome = [op |-> "download", res |-> "Failed", err |-> "sql_not_utf8"]

\* C26: apply_snapshot entered with state bytes that are not valid UTF-8
\* takes no further step of apply (no backup, no replacement of the live
\* tree, no import): it ends at once, with the error sql_not_utf8 when it
\* returns, and the live tree, its .bak sibling and the database are what
\* they were before the call.
C26_NotUtf8FailsBeforeMutation ==
    [][(pc = "a_utf8" /\ ~Utf8Decode(loc.db_sql).ok)
          => /\ pc' = "idle"
             /\ outcome'.res = "Failed" => NotUtf8Failed'
             /\ ssot' = ssot /\ ssot' = pre.ssot
             /\ bak' = bak
             /\ db' = db /\ db' = pre.db]_vars

\* A download of a verified snapshot whose db.sql is not UTF-8 ended with
\* sql_not_utf8 while a live tree existed, and the local state is the one
\* from before.
C26_Witness ==
    /\ NotUtf8Failed
    /\ remote.db.bytes = ForeignDb
    /\ pre.ssot.exists
    /\ ssot = pre.ssot
    /\ db = pre.db

----------------------------------------------------------------------------
(* C27: the combined error of a failed import and a failed rollback        *)

CombinedError == "db_import_and_rollback_failed"

\* apply_snapshot returned (Ok or an error) and the live tree is neither the
\* tree from before the attempt nor the tree of the snapshot.
LiveTreeIsNeither ==
    /\ pc = "idle"
    /\ outcome.op = "download"
    /\ outcome.res \in {"Done", "Failed"}
    /\ ssot # pre.ssot
    /\ ssot # SnapshotTree

\* C27: apply_snapshot returns the combined error only from the rollback
\* after a failed import, and when apply has returned with the live tree
\* neither the previous nor the new tree, the error is the combined one.
C27_CombinedErrorOnlyMixedOutcome ==
    LiveTreeIsNeither => outcome.err = CombinedError

\* The combined error is returned from SkillsBackup::restore only, which
\* runs after import_sql_string failed; a rollback whose steps all succeed
\* returns the import error.
CombinedErrorFromFailedRollback ==
    [][(pc # "idle" /\ pc' = "idle" /\ outcome'.res = "Failed")
          => /\ outcome'.err = CombinedError => pc \in {"s_remove", "s_copy"}
             /\ outcome'.err = "db_import" =>
                   /\ pc \in {"s_remove", "s_copy"}
                   /\ pc = "s_copy" => (loc.evi = Len(loc.ev) /\ loc.copy_ok)]_vars

\* The combined error was returned with a partly restored live tree.
CombinedErrorReached ==
    LiveTreeIsNeither /\ outcome.err = CombinedError /\ ssot.exists

\* The import error itself was returned with a live tree that is neither.
ImportErrorButNeither == LiveTreeIsNeither /\ outcome.err = "db_import"

\* The copy error of restore_skills_zip was returned with a live tree that
\* is neither.
CopyErrorButNeither == LiveTreeIsNeither /\ outcome.err = "copy_dir_recursive"

----------------------------------------------------------------------------
(* C28: an upload that fails before its first PUT                          *)

BeforePutErrors == {"ensure_remote_directories", "build_local_snapshot"}

\* The upload ended Failed in ensure_remote_directories or in
\* build_local_snapshot.
FailedBeforePut ==
    /\ pc = "idle"
    /\ outcome.op = "upload"
    /\ outcome.res = "Failed"
    /\ outcome.err \in BeforePutErrors

\* C28: the step in which ensure_remote_directories or build_local_snapshot
\* fails ends the upload Failed with that error; the attempt has issued no
\* PUT, holds no part of a snapshot, and the remote objects are the ones
\* from before the step (no earlier step of the attempt wrote any).
C28_NoPutBeforeSnapshotBuilt ==
    [][(pc \in {"u_ensure", "u_build"} /\ pc' = "idle" /\ outcome'.res = "Failed")
          => /\ FailedBeforePut'
             /\ pc = "u_ensure" <=> outcome'.err = "ensure_remote_directories"
             /\ PutLog = <<>> /\ PutLog' = <<>>
             /\ loc' = NoLocals
             /\ remote' = remote]_vars

\* A second upload failed while building its snapshot and the remote still
\* holds the complete snapshot of the first upload.
C28_Witness ==
    /\ FailedBeforePut
    /\ outcome.err = "build_local_snapshot"
    /\ attempts = 2
    /\ RemoteVerifies
    /\ remote.manifest.m.created_at = 1

\* The same for a failure of ensure_remote_directories.
EnsureFailedReached ==
    /\ FailedBeforePut
    /\ outcome.err = "ensure_remote_directories"
    /\ attempts = 2
    /\ RemoteVerifies

----------------------------------------------------------------------------
(* C29: a manifest that lacks an artifact descriptor                       *)

\* The artifacts the remote manifest has no descriptor for.
AbsentDescriptors ==
    IF remote.manifest.present
    THEN ArtifactNames \ DOMAIN remote.manifest.m.artifacts
    ELSE {}

\* The GET requests of the running or last attempt for artifacts.
ArtifactGets == {log[i].o : i \in {j \in 1..Len(log) : log[j].m = "GET"}} \cap ArtifactNames

\* C29: while and after a download runs against a manifest that lacks the
\* descriptor of db.sql or of skills.zip, no GET has been issued for an
\* artifact without descriptor, apply_snapshot is not entered, the attempt
\* does not end Done, and the local state is the one from before.
C29_MissingDescriptorFails ==
    (outcome.op = "download" /\ AbsentDescriptors # {}) =>
        /\ ArtifactGets \cap AbsentDescriptors = {}
        /\ pc \notin ApplyPcs
        /\ outcome.res # "Done"
        /\ LocalIsPre

\* A download whose manifest lacks the descriptor of skills.zip fetched
\* db.sql, ended Failed on the missing descriptor without a GET for
\* skills.zip, and a live tree is still the one from before.
C29_Witness ==
    /\ pc = "idle"
    /\ outcome = [op |-> "download", res |-> "Failed", err |-> "manifest_missing_artifact"]
    /\ AbsentDescriptors = {REMOTE_SKILLS_ZIP}
    /\ ArtifactGets = {REMOTE_DB_SQL}
    /\ ssot.exists
    /\ LocalIsPre

\* The same for a manifest without the descriptor of db.sql: no artifact
\* is fetched.
MissingDbDescriptorReached ==
    /\ pc = "idle"
    /\ outcome = [op |-> "download", res |-> "Failed", err |-> "manifest_missing_artifact"]
    /\ AbsentDescriptors = {REMOTE_DB_SQL}
    /\ ArtifactGets = {}

----------------------------------------------------------------------------
(* C30: the ceiling on the declared artifact size                          *)

\* The artifacts whose descriptor in the remote manifest declares a size
\* over the ceiling.
OverCeiling ==
    IF remote.manifest.present
    THEN {n \in ArtifactNames \cap DOMAIN remote.manifest.m.artifacts :
             remote.manifest.m.artifacts[n].size > MAX_SYNC_ARTIFACT_BYTES}
    ELSE {}

\* The download ended on the declared-size ceiling.
TooLargeFailed ==
    pc = "idle" /\ outcome = [op |-> "download", res |-> "Failed", err |-> "artifact_too_large"]

\* C30: while and after a download runs, no GET has been issued for an
\* artifact whose declared size is over MAX_SYNC_ARTIFACT_BYTES, and with
\* such a descriptor apply_snapshot is not entered and the attempt does not
\* end Done; the download is rejected on the ceiling only when a declared
\* size is over it, so a declared size equal to the ceiling passes.
C30_CeilingOnDeclaredSize ==
    outcome.op = "download" =>
        /\ ArtifactGets \cap OverCeiling = {}
        /\ OverCeiling # {} => (pc \notin ApplyPcs /\ outcome.res # "Done" /\ LocalIsPre)
        /\ TooLargeFailed => OverCeiling # {}

\* A download whose manifest declares one byte more than the ceiling for
\* db.sql, which has that size, ended on the ceiling without any GET for an
\* artifact.
C30_Witness ==
    /\ TooLargeFailed
    /\ remote.db.bytes = DbOverCeiling
    /\ OverCeiling = {REMOTE_DB_SQL}
    /\ ArtifactGets = {}
    /\ LocalIsPre

\* A download whose manifest declares exactly the ceiling for db.sql ended
\* Done with that database.
AtCeilingAccepted ==
    /\ pc = "idle"
    /\ outcome.op = "download"
    /\ outcome.res = "Done"
    /\ remote.manifest.m.artifacts[REMOTE_DB_SQL].size = MAX_SYNC_ARTIFACT_BYTES
    /\ ArtifactGets = ArtifactNames
    /\ db = Utf8Decode(DbAtCeiling).text

----------------------------------------------------------------------------
(* C31: the size limit of get_bytes                                        *)

BodyReturned == pc = "f_done" /\ call.f = "get_bytes_body"

\* C31: get_bytes called with a limit returns at most limit bytes; a
\* declared length above the limit is rejected without buffering the body;
\* with no declared length or one within the limit, a body that was read
\* and is longer than the limit is rejected after buffering.
C31_GetBytesWithinLimit ==
    (BodyReturned /\ call.arg.max_bytes # <<>>) =>
        LET limit == call.arg.max_bytes[1]
            cl == call.arg.content_length
        IN  /\ call.ret.res = "ok" =>
                  (call.ret.bytes = call.arg.body /\ Len(call.ret.bytes) <= limit)
            /\ (cl # <<>> /\ cl[1] > limit) =>
                  (call.ret.res = "too_large" /\ ~call.ret.buffered)
            /\ ((cl = <<>> \/ cl[1] <= limit) /\ call.arg.read_ok
                    /\ Len(call.arg.body) > limit) =>
                  (call.ret.res = "too_large" /\ call.ret.buffered)
            /\ ((cl = <<>> \/ cl[1] <= limit) /\ call.arg.read_ok
                    /\ Len(call.arg.body) <= limit) =>
                  call.ret.res = "ok"

\* A body one byte over the manifest limit, with a declared length within
\* the limit, was buffered and rejected.
C31_Witness ==
    /\ BodyReturned
    /\ call.arg.max_bytes = <<MAX_MANIFEST_BYTES>>
    /\ call.arg.content_length = <<MAX_MANIFEST_BYTES>>
    /\ Len(call.arg.body) = MAX_MANIFEST_BYTES + 1
    /\ call.ret.res = "too_large"
    /\ call.ret.buffered

\* A body of exactly the artifact limit was returned.
AtLimitReturned ==
    /\ BodyReturned
    /\ call.arg.max_bytes = <<MAX_SYNC_ARTIFACT_BYTES>>
    /\ Len(call.ret.bytes) = MAX_SYNC_ARTIFACT_BYTES
    /\ call.ret.res = "ok"

\* The outcome the attempts use for a GET agrees with get_bytes: a
\* declared length of -1 there is no declared length here.
AttemptGetBytesAgrees ==
    (BodyReturned /\ call.arg.max_bytes # <<>> /\ call.arg.read_ok) =>
        get_bytes(TRUE, Len(call.arg.body), call.arg.max_bytes[1], TRUE,
                  IF call.arg.content_length = <<>> THEN -1
                  ELSE call.arg.content_length[1]) = call.ret.res

\* download() passes MAX_MANIFEST_BYTES for the manifest and
\* download_and_verify MAX_SYNC_ARTIFACT_BYTES for each artifact: what an
\* attempt holds after its GETs is within these limits.
FetchedWithinLimits ==
    /\ loc.manifest # NoManifest => loc.manifest.len <= MAX_MANIFEST_BYTES
    /\ Len(loc.db_sql) <= MAX_SYNC_ARTIFACT_BYTES
    /\ Len(loc.skills_zip) <= MAX_SYNC_ARTIFACT_BYTES

----------------------------------------------------------------------------
(* C32: the entry-count check of restore_skills_zip                        *)

\* An unpack on its own has run on bytes that parse as an archive.
UnpackDone ==
    /\ pc = "x_done"
    /\ arch.runs = <<>> \/ arch.pack.ok
    /\ ZipParse(arch.zip).ok

\* C32: the unpack of an archive with more than MAX_ZIP_ENTRIES entries
\* fails with nothing extracted: the scratch tree is empty, no byte was
\* counted and nothing was touched outside; an archive with at most
\* MAX_ZIP_ENTRIES entries goes on to the extraction loop and gives what
\* the loop gives for its entries.
C32_TooManyEntriesRejectedFirst ==
    UnpackDone =>
        /\ Len(ArchEntries) > MAX_ZIP_ENTRIES =>
              /\ ~arch.out.ok
              /\ arch.out.t = EmptyTree
              /\ arch.out.total = 0
              /\ arch.out.outside = {}
        /\ Len(ArchEntries) <= MAX_ZIP_ENTRIES =>
              arch.out = ExtractEntries(ArchEntries, 1, EmptyTree, 0, {})

\* An archive with more than MAX_ZIP_ENTRIES entries, whose entries the
\* extraction loop would extract without error, was rejected with nothing
\* extracted.
C32_Witness ==
    /\ UnpackDone
    /\ Len(ArchEntries) > MAX_ZIP_ENTRIES
    /\ ExtractEntries(ArchEntries, 1, EmptyTree, 0, {}).ok
    /\ ExtractEntries(ArchEntries, 1, EmptyTree, 0, {}).t # EmptyTree
    /\ ~arch.out.ok
    /\ arch.out.t = EmptyTree

\* An archive with exactly MAX_ZIP_ENTRIES entries was unpacked.
ExactlyMaxEntriesUnpacked ==
    /\ UnpackDone
    /\ Len(ArchEntries) = MAX_ZIP_ENTRIES
    /\ arch.out.ok
    /\ arch.out.t # EmptyTree

----------------------------------------------------------------------------
(* C33: what pack leaves out                                               *)

\* A name of path p starts with a dot.
HiddenPath(p) == \E i \in 1..Len(p) : Head(p[i]) = Dot

\* The path of the tree an archive entry is named after.
EntryPath(e) == Components(e.name)

\* Entry e is a file or directory of tree t that is not hidden and not
\* below a hidden directory, with its content.
FromVisibleInside(t, e) ==
    LET p == EntryPath(e)
    IN  /\ p \in DOMAIN t
        /\ ~HiddenPath(p)
        /\ IF entry_is_dir(e.name) THEN t[p].k = "d"
           ELSE t[p].k = "f" /\ e.data = t[p].c

\* C33: every entry of an archive that pack returned is a file or directory
\* of the packed tree that is neither hidden nor below a hidden directory,
\* with that file's content: nothing of a hidden entry, nothing from outside
\* the root.
C33_PackOmitsHiddenAndOutside ==
    (Packed /\ arch.pack.ok) =>
        \A i \in 1..Len(arch.pack.es) : FromVisibleInside(arch.tree.t, arch.pack.es[i])

\* The same for the trees in which no link leads to a hidden entry.
NoLinkToHidden(t) ==
    \A p \in DOMAIN t :
        (t[p].k = "l" /\ canonicalize(t, p).ok /\ ~canonicalize(t, p).out)
            => ~HiddenPath(canonicalize(t, p).path)
PackOmitsHiddenAndOutsideButLinks ==
    (Packed /\ arch.pack.ok /\ NoLinkToHidden(arch.tree.t)) =>
        \A i \in 1..Len(arch.pack.es) : FromVisibleInside(arch.tree.t, arch.pack.es[i])

\* A tree with a hidden file was packed without it, and a tree with a link
\* out of the root was packed without the link.
HiddenOmittedReached ==
    /\ Packed /\ arch.pack.ok
    /\ <<NameHidden>> \in DOMAIN arch.tree.t
    /\ arch.tree.t[<<NameHidden>>].k = "f"
    /\ Len(arch.pack.es) = 1
OutsideLinkOmittedReached ==
    /\ Packed /\ arch.pack.ok
    /\ \E p \in DOMAIN arch.tree.t :
          arch.tree.t[p].k = "l" /\ canonicalize(arch.tree.t, p).ok
              /\ canonicalize(arch.tree.t, p).out
    /\ Len(arch.pack.es) = 1

\* The archive holds the file below a hidden directory.
HiddenContentPacked ==
    /\ Packed /\ arch.pack.ok
    /\ \E i \in 1..Len(arch.pack.es) :
          /\ HiddenPath(EntryPath(arch.pack.es[i]))
          /\ arch.pack.es[i].data = <<2>>

----------------------------------------------------------------------------
(* C34: ensuring the remote directories                                    *)

ChainReturned == pc = "f_done" /\ call.f = "ensure_chain"

\* The statuses for which a probe reports Exists, and Missing or
\* Unsupported.
ProbeExists(r) == r \in {200, 204, 207}
ProbeAbsent(r) == r \in {404, 405}

\* The sentence's condition for one directory whose requests meet rs.
DirShouldSucceed(rs) ==
    \/ ProbeExists(rs[1])
    \/ ProbeAbsent(rs[1]) /\ rs[2] = 201
    \/ ProbeAbsent(rs[1]) /\ rs[2] \in {405, 409, 301, 302, 307, 308}
          /\ ProbeExists(rs[3])

\* The first directory of the chain that the sentence says fails, or one
\* past the last.
FirstFailing(rss) ==
    IF \E i \in 1..Len(rss) : ~DirShouldSucceed(rss[i])
    THEN CHOOSE i \in 1..Len(rss) :
             ~DirShouldSucceed(rss[i]) /\ \A j \in 1..(i - 1) : DirShouldSucceed(rss[j])
    ELSE Len(rss) + 1

RequestsFor(reqs, i) == SelectSeq(reqs, LAMBDA r : r.seg = i)

\* C34: ensure_remote_directories succeeds exactly when every directory of
\* the chain meets the sentence's condition; requests are sent for the
\* directories from the root on, in order, up to the first that fails and
\* for none after it; each directory gets a probe first, no MKCOL when the
\* probe reports Exists, and at most one MKCOL.
C34_EnsureDirectories ==
    ChainReturned =>
        LET rss == call.arg.responses
            reqs == call.ret.reqs
            last == Min(FirstFailing(rss), Len(rss))
        IN  /\ call.ret.err = NoError <=> FirstFailing(rss) > Len(rss)
            /\ \A k \in 1..(Len(reqs) - 1) : reqs[k].seg <= reqs[k + 1].seg
            /\ {reqs[k].seg : k \in 1..Len(reqs)} = 1..last
            /\ \A i \in 1..last :
                  LET mine == RequestsFor(reqs, i)
                  IN  /\ mine[1].m = "PROPFIND"
                      /\ ProbeExists(rss[i][1]) => Len(mine) = 1
                      /\ Len(SelectSeq(mine, LAMBDA r : r.m = "MKCOL")) <= 1

\* A chain of three directories: the first exists, the second is created
\* after MKCOL 405 and a second probe, the third fails on MKCOL 409 with the
\* directory still missing.
C34_Witness ==
    /\ ChainReturned
    /\ call.arg.responses = <<<<207, 201, 207>>, <<405, 405, 200>>, <<404, 409, 404>>>>
    /\ call.ret.err # NoError
    /\ Len(call.ret.reqs) = 1 + 3 + 3

\* A chain that stopped at its first directory, and one directory ensured by
\* MKCOL 308 and a second probe.
StoppedAtFirstReached ==
    /\ ChainReturned
    /\ Len(call.arg.responses) = 3
    /\ call.ret.err # NoError
    /\ \A k \in 1..Len(call.ret.reqs) : call.ret.reqs[k].seg = 1
RedirectVerifiedReached ==
    /\ ChainReturned
    /\ call.arg.responses = <<<<404, 308, 207>>>>
    /\ call.ret.err = NoError

----------------------------------------------------------------------------
(* Configuration is checked first                                          *)

\* Sync settings are absent, not enabled, or fail validate().
Misconfigured ==
    \/ store.mem = <<>>
    \/ ~store.mem[1].enabled
    \/ validate(store.mem[1]) # "Ok"

\* upload, download or check_connection is called.
AttemptCalled == pc = "idle" /\ attempts' = attempts + 1

ConfigErrors ==
    {"not_configured", "not_enabled", "EmptyBaseUrl", "NotAUrl", "NotHttp",
     "EmptySegment", "DotDot"}

\* C35: when upload, download or check_connection is called and the sync
\* settings are absent, not enabled or fail validate(), the call ends Failed
\* with the configuration error at once: no request is issued, nothing
\* local is read into the attempt, and remote, database, skills tree,
\* backup, sync status and settings stay as they were.
C35_ConfigurationCheckedFirst ==
    [][(AttemptCalled /\ Misconfigured) =>
          (/\ pc' = "idle"
           /\ outcome'.res = "Failed"
           /\ outcome'.err \in ConfigErrors
           /\ log' = <<>>
           /\ loc' = NoLocals
           /\ UNCHANGED <<remote, db, ssot, bak, status, store, skill_method, threads>>)]_vars

\* With such settings no request is ever issued and nothing ever runs.
MisconfiguredNeverRuns ==
    Misconfigured => (pc = "idle" /\ log = <<>> /\ remote = EmptyRemote
                      /\ bak = NoDir /\ status = NoStatus)

\* check_connection refused disabled settings; upload refused absent ones;
\* download refused ones that fail validate(); a connection check succeeded.
C35_Witness ==
    /\ outcome.op = "check_connection"
    /\ outcome.res = "Failed"
    /\ outcome.err = "not_enabled"
    /\ log = <<>>
UploadRefusedUnconfigured ==
    outcome = [op |-> "upload", res |-> "Failed", err |-> "not_configured"]
DownloadRefusedInvalid ==
    /\ outcome.op = "download" /\ outcome.res = "Failed"
    /\ outcome.err \in {"EmptyBaseUrl", "NotAUrl", "NotHttp", "EmptySegment", "DotDot"}
ConnectionChecked ==
    outcome = [op |-> "check_connection", res |-> "Done", err |-> ""]

----------------------------------------------------------------------------
(* Every attempt ends                                                      *)

\* C36: every started attempt eventually ends Done or Failed, when the
\* process keeps running and each of its operations returns.
C36_AttemptEnds ==
    (outcome.res = "running") ~> (outcome.res \in {"Done", "Failed"})

\* A download went through fetch, verification and replacement and ended
\* Done, and an upload went through all its requests and ended Done.
C36_Witness ==
    /\ outcome.op = "download"
    /\ outcome.res = "Done"
    /\ Len(log) >= 3
LongUploadEnded ==
    /\ outcome.op = "upload"
    /\ outcome.res = "Done"
    /\ Len(log) >= 5

----------------------------------------------------------------------------
(* Upload, then download                                                   *)

\* The tree an archive's entries describe: a directory for each name that
\* ends in '/', a file with the entry's data for each other name.
EntriesTree(es) ==
    MkTree({<<EntryPath(es[i]),
              IF entry_is_dir(es[i].name) THEN DirNode ELSE FileNode(es[i].data)>> :
            i \in 1..Len(es)})

\* The text the upload exported and the tree it packed, as the remote holds
\* them after the upload ended Done.
UploadedDb == Utf8Decode(remote.db.bytes)
UploadedTree == EntriesTree(ZipParse(remote.zip.bytes).es)

\* A download attempt that follows an upload attempt that ended Done: the
\* second attempt is a download, and the first one recorded its success (on
\* a remote directory that was empty only an upload can have done so).
DownloadAfterUpload ==
    /\ attempts = 2
    /\ outcome.op = "download"
    /\ status.last_sync_at = 1

\* C37: in a download that follows an upload that ended Done the manifest
\* is accepted and both artifacts pass the size and the hash check; the
\* exported text decodes and the packed archive is one restore_skills_zip
\* unpacks, so that the attempt ends Done when its operations succeed; and
\* when it has ended Done the database text and the skills tree are the
\* ones the upload exported and packed.
C37_UploadDownloadRoundTrip ==
    DownloadAfterUpload =>
        /\ RemoteVerifies
        /\ UploadedDb.ok
        /\ Unpack(remote.zip.bytes).ok
        /\ (pc = "idle" /\ outcome.res = "Done") =>
              /\ db = UploadedDb.text
              /\ ssot = Dir(UploadedTree)

\* The same for the uploads of trees that restore_skills_zip unpacks.
RoundTripWhenRestorable ==
    (DownloadAfterUpload /\ Unpack(remote.zip.bytes).ok) =>
        /\ RemoteVerifies
        /\ UploadedDb.ok
        /\ (pc = "idle" /\ outcome.res = "Done") =>
              /\ db = UploadedDb.text
              /\ ssot = Dir(UploadedTree)

\* After an upload has ended Done the remote holds the text of the database
\* and, for a tree without links, the tree as it is.
UploadStoresLocalState ==
    (pc = "idle" /\ outcome = [op |-> "upload", res |-> "Done", err |-> ""]) =>
        /\ UploadedDb = [ok |-> TRUE, text |-> db]
        /\ (ssot.exists /\ NoLinksNoHidden(ssot.t)) => UploadedTree = ssot.t

\* The download of an uploaded tree of MAX_ZIP_ENTRIES + 1 files and
\* directories never ends Done.
WideTreeNeverRestored ==
    (DownloadAfterUpload /\ UploadedTree = TreeWide) => outcome.res # "Done"

\* The upload of the large tree ended Done; the download that followed it
\* ended Failed in restore_skills_zip; a download of a tree within the
\* ceilings ended Done over a changed local state.
WideTreeUploaded ==
    /\ pc = "idle"
    /\ outcome = [op |-> "upload", res |-> "Done", err |-> ""]
    /\ ssot = Dir(TreeWide)
WideTreeDownloadFailed ==
    /\ DownloadAfterUpload
    /\ UploadedTree = TreeWide
    /\ outcome.res = "Failed"
    /\ outcome.err = "restore_skills_zip"
RoundTripOverEditReached ==
    /\ DownloadAfterUpload
    /\ pc = "idle"
    /\ outcome.res = "Done"
    /\ pre.db # db
    /\ pre.ssot # ssot
    /\ ssot = Dir(TreeNested)

----------------------------------------------------------------------------
(* Concurrent settings updates                                             *)

\* Both calls have returned Ok.
BothReturnedOk == \A t \in Threads : threads[t].pc = "done" /\ threads[t].ret = "Ok"

\* C38: when set_webdav_sync_settings and set_skill_sync_method run at the
\* same time and both return Ok, the settings in memory hold the webdav
\* settings of the one and the method of the other, and the settings file
\* holds what the memory holds.
C38_NoLostSettingsUpdate ==
    BothReturnedOk =>
        /\ store.mem = threads["webdav"].local.webdav_sync
        /\ skill_method.mem = threads["skill"].arg
        /\ store.disk = store.mem
        /\ skill_method.disk = skill_method.mem

\* What does hold: memory and file each hold the whole settings one of the
\* two calls wrote, whichever came last there.
EachHoldsOneWholeUpdate ==
    BothReturnedOk =>
        /\ \E t \in Threads :
              /\ store.mem = threads[t].local.webdav_sync
              /\ skill_method.mem = threads[t].local.skill_sync_method
        /\ \E t \in Threads :
              /\ store.disk = threads[t].local.webdav_sync
              /\ skill_method.disk = threads[t].local.skill_sync_method

\* A call that began after the other had returned keeps the other's change.
LaterCallKeepsEarlier ==
    [][\A t \in Threads : \A u \in Threads \ {t} :
          (threads[t].pc = "start" /\ threads'[t].pc = "save"
           /\ threads[u].pc = "done" /\ threads[u].ret = "Ok")
          => /\ threads'[t].local.webdav_sync =
                   threads'["webdav"].local.webdav_sync
             /\ threads'[t].local.skill_sync_method = threads'["skill"].arg]_vars

\* Both returned Ok and the webdav settings were lost; both returned Ok and
\* the method was lost; both returned Ok and memory and file differ; both
\* returned Ok with both changes in memory and in the file.
WebdavUpdateLost ==
    BothReturnedOk /\ store.mem # threads["webdav"].local.webdav_sync
MethodUpdateLost ==
    BothReturnedOk /\ skill_method.mem # threads["skill"].arg
MemoryAndFileDiffer ==
    BothReturnedOk /\ (store.disk # store.mem \/ skill_method.disk # skill_method.mem)
BothUpdatesKept ==
    /\ BothReturnedOk
    /\ store.mem = threads["webdav"].local.webdav_sync
    /\ skill_method.mem = threads["skill"].arg
    /\ store.disk = store.mem
    /\ skill_method.disk = skill_method.mem

----------------------------------------------------------------------------
(* normalize_device_name applied to its own result                         *)

\* C39: normalize_device_name applied to a name it returned returns that
\* name again, for truncated names too.
C39_NormalizeDeviceNameIdempotent ==
    (NameReturned /\ call.ret.some) =>
        normalize_device_name(call.ret.name) = call.ret

\* It holds for every name that was not cut at MAX_DEVICE_NAME_LEN.
IdempotentWhenNotTruncated ==
    (NameReturned /\ call.ret.some
     /\ Len(TrimWhitespace(JoinSpace(split_whitespace(Compact(call.arg), <<>>))))
            <= MAX_DEVICE_NAME_LEN) =>
        normalize_device_name(call.ret.name) = call.ret

\* A second application always returns a name, and a third changes nothing.
StableAfterSecond ==
    (NameReturned /\ call.ret.some) =>
        LET second == normalize_device_name(call.ret.name)
        IN  /\ second.some
            /\ normalize_device_name(second.name) = second

\* A name cut after a space loses the space in the second application; a
\* name cut inside a word comes back as it is.
CutAfterSpaceReached ==
    /\ NameReturned
    /\ call.ret = SomeName(<<97, 97, 32>>)
    /\ normalize_device_name(call.ret.name) = SomeName(<<97, 97>>)
CutInsideWordReached ==
    /\ NameReturned
    /\ Len(call.arg) > MAX_DEVICE_NAME_LEN
    /\ call.ret.some
    /\ Len(call.ret.name) = MAX_DEVICE_NAME_LEN
    /\ normalize_device_name(call.ret.name) = call.ret

============================================================================
